---- MODULE Spec2Model ----
(***************************************************************************)
(* A model of the Llama 3 tokenizer of agentstation/tokenizer: the byte    *)
(* codec, the pre-tokenizer state machine, the special-token split, the    *)
(* BPE engine with its cache, the encoder / decoder, and the streaming     *)
(* scanner.                                                                *)
(*                                                                         *)
(* A Go string is a sequence of bytes (0..255); a rune is a codepoint (a   *)
(* natural number); a token string of the vocabulary is the UTF-8 encoding *)
(* of its symbols of the byte-level alphabet.                              *)
(***************************************************************************)
EXTENDS Integers, Sequences, FiniteSets, TLC

VARIABLES
    \* pre-tokenizer (StateMachine)
    text,        \* the string handed to Tokenize / Encode (bytes)
    input,       \* StateMachine.input    ([]rune(text))
    position,    \* StateMachine.position
    tokens,      \* StateMachine.tokens   (strings, as bytes)
    \* tokenizer
    opts,        \* *EncodeOptions of the call
    cache,       \* Tokenizer.cache
    output,      \* the ID list returned by the last Encode
    decoded,     \* the bytes returned by the last Decode
    phase,       \* position of the single caller
    \* concurrent callers
    gor,         \* per goroutine: its call and its position in it
    pool,        \* stateMachinePool: the machines and who holds them
    \* scanner
    sc,          \* the scanner struct
    rd,          \* the io.Reader: its data and read offset
    hist,        \* history: what the callers have observed so far
    \* BPE processor
    bpe,         \* a Processor and the locals of its PerformBPE call
    \* byte codec
    codec,       \* the bytes handed to EncodeBytes and what came back
    \* TokenStream
    stream       \* the goroutine of TokenStream, its two channels, the consumer

vars == <<text, input, position, tokens, opts, cache, output, decoded, phase, gor, pool,
          sc, rd, hist, bpe, codec, stream>>

----------------------------------------------------------------------------
(* Bounds of the model *)

\* the longest input of the pre-tokenizer, in pieces (codepoints or stray bytes)
MaxPieces == 4

\* the longest text given to Encode, in pieces
MaxParts == 3

\* the number of Encode calls made on one tokenizer
MaxCalls == 3

\* the number of goroutines calling one tokenizer at the same time
MaxGoroutines == 2

\* the longest input of the scanner, in pieces
MaxScanPieces == 3

\* the largest read buffer size of the scanner
MaxBufSize == 3

\* the largest buffer limit of the scanner
MaxBufferLimit == 4

\* the longest input of the scanner over a reader that fails, in pieces
MaxErrPieces == 2

\* the longest text split by an arbitrary pattern, in bytes, and the longest
\* text split by SpecialTokenRegex, in pieces
MaxSplitLen == 3
MaxSplitPieces == 5

\* the most options handed to New, the longest vocabulary a loader returns,
\* and the most BPE calls on the tokenizer New returned
MaxOptions == 2
MaxVocabLen == 2
MaxNewCalls == 2

\* the most tokens the scanner of a TokenStream produces: two more than the
\* tokens channel buffers
MaxStreamTokens == 102

\* the longest ID list handed to Decode on its own
MaxDecodeIDs == 3

\* the longest string handed to GetSpecialTokenID, in pieces
MaxSpecialPieces == 4

\* the largest capacity of an LRU cache used on its own
MaxLRUCapacity == 2

\* the longest byte sequence handed to the byte codec, beyond the single bytes
MaxCodecLen == 2

\* the longest pre-token handed to the BPE processor, in symbols
MaxBPELen == 3

\* the longest run of one symbol handed to the BPE processor
MaxRunLen == 6

\* the number of PerformBPE calls on one processor
MaxBPECalls == 2

----------------------------------------------------------------------------
(* Sequences *)

\* a local variable: v is computed once, as the value of the bound x, and
\* handed to the code F that uses it
Bind(v, F(_)) == CHOOSE r \in {F(x) : x \in {v}} : TRUE

RECURSIVE Concat(_)
Concat(ss) == IF ss = <<>> THEN <<>> ELSE Head(ss) \o Concat(Tail(ss))

Slice(s, from, to) == SubSeq(s, from + 1, to)     \* Go's s[from:to], 0-based

RECURSIVE SeqsUpTo(_, _)
SeqsUpTo(S, n) ==
    IF n = 0 THEN {<<>>}
    ELSE LET shorter == SeqsUpTo(S, n - 1)
         IN  shorter \cup {Append(s, x) : s \in {t \in shorter : Len(t) = n - 1}, x \in S}

----------------------------------------------------------------------------
(* UTF-8: Go's string <-> []rune conversions *)

RuneError == 65533

IsCont(b) == b >= 128 /\ b <= 191

\* utf8.DecodeRuneInString at byte offset i (0-based): <<rune, width>>.
\* A byte that does not start a well-formed sequence decodes to U+FFFD, width 1.
DecodeRune(bs, i) ==
    LET n  == Len(bs) - i
        b0 == bs[i + 1]
        b1 == bs[i + 2]
        b2 == bs[i + 3]
        b3 == bs[i + 4]
        lo1 == IF b0 = 224 THEN 160 ELSE IF b0 = 240 THEN 144 ELSE 128
        hi1 == IF b0 = 237 THEN 159 ELSE IF b0 = 244 THEN 143 ELSE 191
    IN  IF b0 < 128 THEN <<b0, 1>>
        ELSE IF b0 >= 194 /\ b0 <= 223 THEN
            IF n >= 2 /\ IsCont(b1) THEN <<(b0 - 192) * 64 + (b1 - 128), 2>>
            ELSE <<RuneError, 1>>
        ELSE IF b0 >= 224 /\ b0 <= 239 THEN
            IF n >= 3 /\ b1 >= lo1 /\ b1 <= hi1 /\ IsCont(b2)
            THEN <<(b0 - 224) * 4096 + (b1 - 128) * 64 + (b2 - 128), 3>>
            ELSE <<RuneError, 1>>
        ELSE IF b0 >= 240 /\ b0 <= 244 THEN
            IF n >= 4 /\ b1 >= lo1 /\ b1 <= hi1 /\ IsCont(b2) /\ IsCont(b3)
            THEN <<(b0 - 240) * 262144 + (b1 - 128) * 4096 + (b2 - 128) * 64 + (b3 - 128), 4>>
            ELSE <<RuneError, 1>>
        ELSE <<RuneError, 1>>

RECURSIVE ToRunesFrom(_, _)
ToRunesFrom(bs, i) ==
    IF i >= Len(bs) THEN <<>>
    ELSE LET d == DecodeRune(bs, i) IN <<d[1]>> \o ToRunesFrom(bs, i + d[2])

\* []rune(text)
ToRunes(bs) == ToRunesFrom(bs, 0)

\* utf8.EncodeRune
EncodeRune(r) ==
    IF r < 128 THEN <<r>>
    ELSE IF r < 2048 THEN <<192 + (r \div 64), 128 + (r % 64)>>
    ELSE IF r >= 55296 /\ r <= 57343 THEN <<239, 191, 189>>
    ELSE IF r < 65536 THEN <<224 + (r \div 4096), 128 + ((r \div 64) % 64), 128 + (r % 64)>>
    ELSE IF r > 1114111 THEN <<239, 191, 189>>
    ELSE <<240 + (r \div 262144), 128 + ((r \div 4096) % 64), 128 + ((r \div 64) % 64), 128 + (r % 64)>>

\* string(runes)
RECURSIVE FromRunes(_)
FromRunes(rs) == IF rs = <<>> THEN <<>> ELSE EncodeRune(Head(rs)) \o FromRunes(Tail(rs))

\* utf8.ValidString
ValidUTF8(bs) == FromRunes(ToRunes(bs)) = bs

----------------------------------------------------------------------------
(* Character classes (package unicode), on the codepoints the model uses:   *)
(* Latin-1, the CJK ideographs and U+FFFD.                                  *)

\* unicode.IsLetter: general category L
IsLetterRune(r) ==
    \/ r >= 65 /\ r <= 90
    \/ r >= 97 /\ r <= 122
    \/ r \in {170, 181, 186}
    \/ r >= 192 /\ r <= 214
    \/ r >= 216 /\ r <= 246
    \/ r >= 248 /\ r <= 255
    \/ r >= 19968 /\ r <= 40959

\* unicode.IsDigit: general category Nd
IsDigitRune(r) == r >= 48 /\ r <= 57

\* general category N (Nd, Nl, No): the regex class \p{N}
IsCategoryN(r) == IsDigitRune(r) \/ r \in {178, 179, 185, 188, 189, 190}

\* unicode.IsSpace
IsSpaceRune(r) == (r >= 9 /\ r <= 13) \/ r \in {32, 133, 160}

\* unicode.ToLower
ToLower(r) ==
    IF (r >= 65 /\ r <= 90) \/ (r >= 192 /\ r <= 214) \/ (r >= 216 /\ r <= 222)
    THEN r + 32 ELSE r

isLetter(r) == IsLetterRune(r)

isNumber(r) == IsDigitRune(r)

isWhitespace(r) == IsSpaceRune(r)

----------------------------------------------------------------------------
(* The pre-tokenizer state machine.  A try* operator takes the runes and    *)
(* the position and returns the position after the rule: the position it    *)
(* was given when the rule does not match (the code then returns "").       *)

IsNewline(r) == r = 13 \/ r = 10

IsPunct(r) == ~(isWhitespace(r) \/ isLetter(r) \/ isNumber(r))

IsBlank(r) == isWhitespace(r) /\ ~IsNewline(r)

InClass(cls, r) ==
    CASE cls = "letter"  -> isLetter(r)
      [] cls = "punct"   -> IsPunct(r)
      [] cls = "newline" -> IsNewline(r)
      [] cls = "blank"   -> IsBlank(r)
      [] cls = "space"   -> isWhitespace(r)

\* the end of the run of runes of class cls that starts at p (a for loop
\* advancing sm.position while the condition holds)
RECURSIVE RunEnd(_, _, _)
RunEnd(in, p, cls) ==
    IF p < Len(in) /\ InClass(cls, in[p + 1]) THEN RunEnd(in, p + 1, cls) ELSE p

contractions ==
    << <<39, 115>>, <<39, 116>>, <<39, 114, 101>>, <<39, 118, 101>>,
       <<39, 109>>, <<39, 108, 108>>, <<39, 100>> >>

matchesAt(in, p, s, caseInsensitive) ==
    /\ p + Len(s) <= Len(in)
    /\ \A i \in 1..Len(s) :
          IF caseInsensitive THEN ToLower(in[p + i]) = ToLower(s[i])
          ELSE in[p + i] = s[i]

tryContraction(in, p) ==
    IF p >= Len(in) \/ in[p + 1] # 39 THEN p
    ELSE LET hits == {k \in 1..Len(contractions) : matchesAt(in, p, contractions[k], TRUE)}
         IN  IF hits = {} THEN p
             ELSE LET k == CHOOSE x \in hits : \A y \in hits : x <= y
                  IN  p + Len(contractions[k])

tryWordWithPrefix(in, p) ==
    LET ch == in[p + 1]
        q  == IF p < Len(in) /\ ~isLetter(ch) /\ ~isNumber(ch) /\ ~IsNewline(ch)
              THEN p + 1 ELSE p
    IN  IF q >= Len(in) \/ ~isLetter(in[q + 1]) THEN p
        ELSE RunEnd(in, q, "letter")

RECURSIVE NumbersEnd(_, _, _)
NumbersEnd(in, p, count) ==
    IF p < Len(in) /\ isNumber(in[p + 1]) /\ count < 3
    THEN NumbersEnd(in, p + 1, count + 1) ELSE p

tryNumbers(in, p) ==
    IF p >= Len(in) \/ ~isNumber(in[p + 1]) THEN p
    ELSE NumbersEnd(in, p, 0)

tryPunctuationWithSpace(in, p) ==
    LET q == IF p < Len(in) /\ in[p + 1] = 32 THEN p + 1 ELSE p
    IN  IF q >= Len(in) \/ ~IsPunct(in[q + 1]) THEN p
        ELSE RunEnd(in, RunEnd(in, q, "punct"), "newline")

tryNewlineSequence(in, p) ==
    LET q == RunEnd(in, p, "blank")
        e == RunEnd(in, q, "newline")
    IN  IF e = q THEN p ELSE e

tryWhitespaceGreedy(in, p) ==
    IF p >= Len(in) \/ ~isWhitespace(in[p + 1]) THEN p
    ELSE RunEnd(in, p, "space")

tryWhitespace(in, p) ==
    IF p >= Len(in) \/ ~isWhitespace(in[p + 1]) THEN p
    ELSE LET e == RunEnd(in, p, "space")
         IN  IF e < Len(in) /\ ~isWhitespace(in[e + 1]) /\ e > p + 1
             THEN e - 1 ELSE e

\* the number (1..7) of the rule matchNext applies at position p
RuleAt(in, p) ==
    IF tryContraction(in, p) # p THEN 1
    ELSE IF tryWordWithPrefix(in, p) # p THEN 2
    ELSE IF tryNumbers(in, p) # p THEN 3
    ELSE IF tryPunctuationWithSpace(in, p) # p THEN 4
    ELSE IF tryNewlineSequence(in, p) # p THEN 5
    ELSE IF tryWhitespace(in, p) # p THEN 6
    ELSE 7

\* one matchNext at position p < Len(in): <<start, end>> of the token it
\* appends, end being the position it leaves.  The rules are tried in order;
\* a rule that does not match restores the position it was called at, so
\* every token starts at p.
matchTokenNoBacktrack(in, p) ==
    LET ch == in[p + 1]
        q  == IF tryContraction(in, p) = p /\ tryWordWithPrefix(in, p) = p
                 /\ ~isLetter(ch) /\ ~isNumber(ch) /\ ~IsNewline(ch)
              THEN p + 1 ELSE p
    IN  IF q = p \/ q >= Len(in) THEN
             <<p, IF tryContraction(in, p) # p THEN tryContraction(in, p)
                  ELSE IF tryWordWithPrefix(in, p) # p THEN tryWordWithPrefix(in, p)
                  ELSE IF tryNumbers(in, p) # p THEN tryNumbers(in, p)
                  ELSE IF tryPunctuationWithSpace(in, p) # p THEN tryPunctuationWithSpace(in, p)
                  ELSE IF tryNewlineSequence(in, p) # p THEN tryNewlineSequence(in, p)
                  ELSE IF tryWhitespace(in, p) # p THEN tryWhitespace(in, p)
                  ELSE p + 1>>
        ELSE <<q, IF tryNumbers(in, q) # q THEN tryNumbers(in, q)
                  ELSE IF tryPunctuationWithSpace(in, q) # q THEN tryPunctuationWithSpace(in, q)
                  ELSE IF tryNewlineSequence(in, q) # q THEN tryNewlineSequence(in, q)
                  ELSE IF tryWhitespace(in, q) # q THEN tryWhitespace(in, q)
                  ELSE q + 1>>

\* a matchNext that tries the word rule before the contractions
matchTokenWordFirst(in, p) ==
    <<p, IF tryWordWithPrefix(in, p) # p THEN tryWordWithPrefix(in, p)
         ELSE IF tryContraction(in, p) # p THEN tryContraction(in, p)
         ELSE IF tryNumbers(in, p) # p THEN tryNumbers(in, p)
         ELSE IF tryPunctuationWithSpace(in, p) # p THEN tryPunctuationWithSpace(in, p)
         ELSE IF tryNewlineSequence(in, p) # p THEN tryNewlineSequence(in, p)
         ELSE IF tryWhitespace(in, p) # p THEN tryWhitespace(in, p)
         ELSE p + 1>>

matchToken(in, p) ==
    <<p, IF tryContraction(in, p) # p THEN tryContraction(in, p)
         ELSE IF tryWordWithPrefix(in, p) # p THEN tryWordWithPrefix(in, p)
         ELSE IF tryNumbers(in, p) # p THEN tryNumbers(in, p)
         ELSE IF tryPunctuationWithSpace(in, p) # p THEN tryPunctuationWithSpace(in, p)
         ELSE IF tryNewlineSequence(in, p) # p THEN tryNewlineSequence(in, p)
         ELSE IF tryWhitespace(in, p) # p THEN tryWhitespace(in, p)
         ELSE p + 1>>

\* a matchNext whose whitespace rule gives the one whitespace rune back
\* after its token was taken
matchNextGivesBack(in, p) ==
    IF matchToken(in, p)[2] = p + 1 /\ isWhitespace(in[p + 1]) THEN p
    ELSE matchToken(in, p)[2]

\* the position after one matchNext at position p < Len(in)
matchNext(in, p) == matchToken(in, p)[2]

\* the loop of Tokenize, from position p: the pre-tokens as rune slices
RECURSIVE TokenizeFrom(_, _)
TokenizeFrom(in, p) ==
    IF p >= Len(in) THEN <<>>
    ELSE Bind(matchToken(in, p),
              LAMBDA m : <<Slice(in, m[1], m[2])>> \o TokenizeFrom(in, m[2]))

\* Tokenize(text): the pre-tokens as strings
Tokenize(t) ==
    Bind(TokenizeFrom(ToRunes(t), 0),
         LAMBDA parts : [i \in 1..Len(parts) |-> FromRunes(parts[i])])

----------------------------------------------------------------------------
(* The reference pattern the state machine is written against, alternative  *)
(* by alternative, with the backtracking a regex engine does.  Rx* returns  *)
(* the end of the match at p, or p when the alternative fails there.        *)

\* (?i:'s|'t|'re|'ve|'m|'ll|'d)
RxContraction(in, p) ==
    LET hits == {k \in 1..Len(contractions) :
                    /\ p + Len(contractions[k]) <= Len(in)
                    /\ \A i \in 1..Len(contractions[k]) :
                          ToLower(in[p + i]) = contractions[k][i]}
    IN  IF hits = {} THEN p
        ELSE p + Len(contractions[CHOOSE x \in hits : \A y \in hits : x <= y])

RECURSIVE RxLetters(_, _)
RxLetters(in, p) ==
    IF p < Len(in) /\ IsLetterRune(in[p + 1]) THEN RxLetters(in, p + 1) ELSE p

\* [^\r\n\p{L}\p{N}]?\p{L}+
RxWord(in, p) ==
    IF p < Len(in) /\ IsLetterRune(in[p + 1]) THEN RxLetters(in, p)
    ELSE IF /\ p + 1 < Len(in)
            /\ ~IsLetterRune(in[p + 1]) /\ ~IsCategoryN(in[p + 1])
            /\ in[p + 1] \notin {13, 10}
            /\ IsLetterRune(in[p + 2])
         THEN RxLetters(in, p + 1)
    ELSE p

\* \p{N}{1,3}
RxNumbers(in, p) ==
    LET ok(k) == p + k <= Len(in) /\ \A i \in 1..k : IsCategoryN(in[p + i])
    IN  IF ok(3) THEN p + 3 ELSE IF ok(2) THEN p + 2 ELSE IF ok(1) THEN p + 1 ELSE p

RECURSIVE RxOther(_, _)
RxOther(in, p) ==
    IF p < Len(in) /\ ~IsSpaceRune(in[p + 1]) /\ ~IsLetterRune(in[p + 1])
       /\ ~IsCategoryN(in[p + 1])
    THEN RxOther(in, p + 1) ELSE p

RECURSIVE RxNewlines(_, _)
RxNewlines(in, p) ==
    IF p < Len(in) /\ in[p + 1] \in {13, 10} THEN RxNewlines(in, p + 1) ELSE p

\*  ?[^\s\p{L}\p{N}]+[\r\n]*
RxPunctuation(in, p) ==
    LET q == IF p < Len(in) /\ in[p + 1] = 32 THEN p + 1 ELSE p
    IN  IF RxOther(in, q) = q THEN p ELSE RxNewlines(in, RxOther(in, q))

RECURSIVE RxSpaces(_, _)
RxSpaces(in, p) ==
    IF p < Len(in) /\ IsSpaceRune(in[p + 1]) THEN RxSpaces(in, p + 1) ELSE p

\* \s*[\r\n]+ : \s* takes the whole whitespace run and gives back until a
\* newline can follow, so the match ends after the last newline of the run
RxNewlineSequence(in, p) ==
    LET e  == RxSpaces(in, p)
        nl == {k \in (p + 1)..e : in[k] \in {13, 10}}
    IN  IF nl = {} THEN p ELSE CHOOSE k \in nl : \A j \in nl : j <= k

\* \s+(?!\S) : the longest prefix of the whitespace run not followed by a
\* non-whitespace character
RxSpacesNotBeforeWord(in, p) ==
    LET e == RxSpaces(in, p)
    IN  IF e = p THEN p
        ELSE IF e = Len(in) THEN e
        ELSE IF e > p + 1 THEN e - 1
        ELSE p

\* the end of the leftmost alternative that matches at p; a position no
\* alternative matches at is skipped by the search
RxMatchEnd(in, p) ==
    IF RxContraction(in, p) # p THEN RxContraction(in, p)
    ELSE IF RxWord(in, p) # p THEN RxWord(in, p)
    ELSE IF RxNumbers(in, p) # p THEN RxNumbers(in, p)
    ELSE IF RxPunctuation(in, p) # p THEN RxPunctuation(in, p)
    ELSE IF RxNewlineSequence(in, p) # p THEN RxNewlineSequence(in, p)
    ELSE IF RxSpacesNotBeforeWord(in, p) # p THEN RxSpacesNotBeforeWord(in, p)
    ELSE IF RxSpaces(in, p) # p THEN RxSpaces(in, p)
    ELSE p

\* the successive matches of the pattern over the runes from p on
RECURSIVE RxMatches(_, _)
RxMatches(in, p) ==
    IF p >= Len(in) THEN <<>>
    ELSE IF RxMatchEnd(in, p) = p THEN RxMatches(in, p + 1)
    ELSE <<FromRunes(Slice(in, p, RxMatchEnd(in, p)))>> \o RxMatches(in, RxMatchEnd(in, p))

----------------------------------------------------------------------------
(* The byte codec.  A Go string is modelled as its sequence of bytes; a     *)
(* token string of the byte-level alphabet is the UTF-8 encoding of its     *)
(* symbols.                                                                 *)

asciiPrintableStart == 33

asciiPrintableEnd == 126

extendedASCIIStart1 == 161

extendedASCIIEnd1 == 172

extendedASCIIStart2 == 174

extendedASCIIEnd2 == 255

unicodeOffset == 256

\* the list i, i+1, ..., j
Range(i, j) == [k \in 1..(j - i + 1) |-> i + k - 1]

\* a mapping that numbers the remaining bytes from 0, not from unicodeOffset
ByteMappingsNoOffset ==
    LET printable == Range(asciiPrintableStart, asciiPrintableEnd)
                     \o Range(extendedASCIIStart1, extendedASCIIEnd1)
                     \o Range(extendedASCIIStart2, extendedASCIIEnd2)
        found(b)  == \E i \in 1..Len(printable) : printable[i] = b
        rest      == SelectSeq(Range(0, 255), LAMBDA b : ~found(b))
        bs        == printable \o rest
        cs        == printable \o [n \in 1..Len(rest) |-> n - 1]
    IN  [bs |-> bs, cs |-> cs]

\* CreateByteMappings: bs and cs, then the two maps
ByteMappings ==
    LET printable == Range(asciiPrintableStart, asciiPrintableEnd)
                     \o Range(extendedASCIIStart1, extendedASCIIEnd1)
                     \o Range(extendedASCIIStart2, extendedASCIIEnd2)
        found(b)  == \E i \in 1..Len(printable) : printable[i] = b
        rest      == SelectSeq(Range(0, 255), LAMBDA b : ~found(b))
        bs        == printable \o rest
        cs        == printable \o [n \in 1..Len(rest) |-> unicodeOffset + (n - 1)]
    IN  [bs |-> bs, cs |-> cs]

BytesToUnicode ==
    [b \in 0..255 |-> ByteMappings.cs[CHOOSE i \in 1..256 : ByteMappings.bs[i] = b]]

UnicodeToBytes ==
    [r \in {ByteMappings.cs[i] : i \in 1..256} |->
        ByteMappings.bs[CHOOSE i \in 1..256 : ByteMappings.cs[i] = r]]

\* EncodeBytes: one symbol per byte, written as UTF-8
EncodeBytes(data) == FromRunes([i \in 1..Len(data) |-> BytesToUnicode[data[i]]])

\* a decoder that maps the bytes of the token string, not its symbols
DecodeTokenBytesBytewise(token) ==
    LET known == SelectSeq(token, LAMBDA r : r \in DOMAIN UnicodeToBytes)
    IN  [i \in 1..Len(known) |-> UnicodeToBytes[known[i]]]

\* DecodeTokenBytes: ranges over the runes of the token and skips the ones
\* that are not in the map
DecodeTokenBytes(token) ==
    LET known == SelectSeq(ToRunes(token), LAMBDA r : r \in DOMAIN UnicodeToBytes)
    IN  [i \in 1..Len(known) |-> UnicodeToBytes[known[i]]]

----------------------------------------------------------------------------
(* The tokenizer's tables, as New builds them.                              *)

baseVocabSize == 128000

specialTokenCount == 256

beginOfTextToken == <<60, 124, 98, 101, 103, 105, 110, 95, 111, 102, 95, 116, 101, 120, 116, 124, 62>>

endOfTextToken == <<60, 124, 101, 110, 100, 95, 111, 102, 95, 116, 101, 120, 116, 124, 62>>

\* fmt.Sprintf("%d", n), n >= 0
RECURSIVE Decimal(_)
Decimal(n) == IF n < 10 THEN <<48 + n>> ELSE Decimal(n \div 10) \o <<48 + (n % 10)>>

\* GetDefaultSpecialTokens: the eleven listed tokens, then
\* <|reserved_special_token_i|> for i = 3 .. count - 9
GetDefaultSpecialTokens(count) ==
    << <<60, 124, 98, 101, 103, 105, 110, 95, 111, 102, 95, 116, 101, 120, 116, 124, 62>>,
       <<60, 124, 101, 110, 100, 95, 111, 102, 95, 116, 101, 120, 116, 124, 62>>,
       <<60, 124, 114, 101, 115, 101, 114, 118, 101, 100, 95, 115, 112, 101, 99, 105, 97, 108, 95, 116, 111, 107, 101, 110, 95, 48, 124, 62>>,
       <<60, 124, 114, 101, 115, 101, 114, 118, 101, 100, 95, 115, 112, 101, 99, 105, 97, 108, 95, 116, 111, 107, 101, 110, 95, 49, 124, 62>>,
       <<60, 124, 102, 105, 110, 101, 116, 117, 110, 101, 95, 114, 105, 103, 104, 116, 95, 112, 97, 100, 95, 105, 100, 124, 62>>,
       <<60, 124, 114, 101, 115, 101, 114, 118, 101, 100, 95, 115, 112, 101, 99, 105, 97, 108, 95, 116, 111, 107, 101, 110, 95, 50, 124, 62>>,
       <<60, 124, 115, 116, 97, 114, 116, 95, 104, 101, 97, 100, 101, 114, 95, 105, 100, 124, 62>>,
       <<60, 124, 101, 110, 100, 95, 104, 101, 97, 100, 101, 114, 95, 105, 100, 124, 62>>,
       <<60, 124, 101, 111, 109, 95, 105, 100, 124, 62>>,
       <<60, 124, 101, 111, 116, 95, 105, 100, 124, 62>>,
       <<60, 124, 112, 121, 116, 104, 111, 110, 95, 116, 97, 103, 124, 62>> >>
    \o [k \in 1..(count - 9 - 2) |->
           <<60, 124, 114, 101, 115, 101, 114, 118, 101, 100, 95, 115, 112, 101, 99, 105, 97, 108, 95, 116, 111, 107, 101, 110, 95>>
           \o Decimal(k + 2) \o <<124, 62>>]

\* The learned merges the model spells out, as the pairs of IDs the merge
\* data unpacks to, in priority order: a+a, space+a, aa+a, 0xC3+0xA9.
MergeData == << <<64, 64>>, <<220, 64>>, <<256, 64>>, <<127, 102>> >>

\* The base vocabulary the loader returns: the 256 byte symbols, then one
\* token per learned merge; every other learned token is a string the texts
\* of the model never contain (a private-use codepoint).
RECURSIVE VocabData(_)
VocabData(id) ==
    IF id < 256 THEN FromRunes(<<ByteMappings.cs[id + 1]>>)
    ELSE IF id < 256 + Len(MergeData)
         THEN VocabData(MergeData[id - 255][1]) \o VocabData(MergeData[id - 255][2])
    ELSE EncodeRune(983040 + id)

\* the special tokens New appends
DefaultSpecialTokens == GetDefaultSpecialTokens(specialTokenCount)

\* len(t.tokens): the base vocabulary followed by the special tokens
NumTokens == baseVocabSize + Len(DefaultSpecialTokens)

\* the IDs whose strings the model spells out
SpelledIDs == (0..(255 + Len(MergeData))) \cup (baseVocabSize..(NumTokens - 1))

\* t.tokens on the spelled IDs
TokenTable ==
    [id \in SpelledIDs |->
        IF id < baseVocabSize THEN VocabData(id)
        ELSE DefaultSpecialTokens[id - baseVocabSize + 1]]

\* t.tokens[id]
Tokens(id) == IF id \in SpelledIDs THEN TokenTable[id] ELSE VocabData(id)

\* t.tokenLookup: for id, token := range t.tokens { lookup[token] = id }
TokenLookupMap ==
    [s \in {TokenTable[id] : id \in SpelledIDs} |->
        CHOOSE id \in SpelledIDs :
            /\ TokenTable[id] = s
            /\ \A other \in SpelledIDs : TokenTable[other] = s => other <= id]

HasToken(s) == s \in DOMAIN TokenLookupMap

\* id, ok := t.tokenLookup[s]
GetTokenID(s) ==
    Bind(TokenLookupMap, LAMBDA m : IF s \in DOMAIN m THEN <<m[s], TRUE>> ELSE <<0, FALSE>>)

\* a Go map read: the zero value when the key is absent
TokenLookup(s) == GetTokenID(s)[1]

\* getMergeIdentifier
getMergeIdentifier(firstTokenID, secondTokenID) ==
    IF firstTokenID >= NumTokens \/ secondTokenID >= NumTokens THEN <<>>
    ELSE Tokens(firstTokenID) \o <<32>> \o Tokens(secondTokenID)

\* decompressMerges: the k-th pair gets priority k; a pair with an ID out
\* of range is skipped; a later pair with the same identifier overwrites
MergeRulesMap ==
    Bind([k \in 1..Len(MergeData) |-> getMergeIdentifier(MergeData[k][1], MergeData[k][2])],
         LAMBDA ident :
           LET ok == {k \in 1..Len(MergeData) :
                         MergeData[k][1] < NumTokens /\ MergeData[k][2] < NumTokens}
           IN  [m \in {ident[k] : k \in ok} |->
                  CHOOSE k \in ok : ident[k] = m /\ \A j \in ok : ident[j] = m => j <= k])

\* priority, ok := mergeRules[m]
GetMergeRule(m) ==
    Bind(MergeRulesMap, LAMBDA r : IF m \in DOMAIN r THEN <<r[m], TRUE>> ELSE <<0, FALSE>>)

HasMerge(m) == GetMergeRule(m)[2]

MergeRules(m) == GetMergeRule(m)[1]

\* isSpecialToken: the "<|" prefix and the "|>" suffix
IsSpecialToken(token) ==
    /\ Len(token) >= 2
    /\ SubSeq(token, 1, 2) = <<60, 124>>
    /\ SubSeq(token, Len(token) - 1, Len(token)) = <<124, 62>>

\* a lookup that consults the vocabulary before the format
GetSpecialTokenIDLookupFirst(token) ==
    Bind(GetTokenID(token),
         LAMBDA found :
           IF ~found[2] THEN <<0, FALSE, "ErrTokenNotFound">>
           ELSE IF ~IsSpecialToken(token) THEN <<0, FALSE, "ErrInvalidToken">>
           ELSE <<found[1], TRUE, "nil">>)

\* GetSpecialTokenID: <<id, ok, the error>>
GetSpecialTokenID(token) ==
    IF ~IsSpecialToken(token) THEN <<0, FALSE, "ErrInvalidToken">>
    ELSE Bind(GetTokenID(token),
              LAMBDA found :
                IF ~found[2] THEN <<0, FALSE, "ErrTokenNotFound">>
                ELSE <<found[1], TRUE, "nil">>)

----------------------------------------------------------------------------
(* The BPE cache.  One record shape for both implementations: the map of    *)
(* SimpleCache, and the list of LRUCache with the most recently used entry  *)
(* first (its items map is the index of that list).                         *)

NewSimple == [kind |-> "simple", capacity |-> 0, cache |-> <<>>, lru |-> <<>>]

NewLRU(capacity) == [kind |-> "lru", capacity |-> capacity, cache |-> <<>>, lru |-> <<>>]

\* the position in the list of the entry with the key, 0 when there is none
LRUIndex(c, key) ==
    IF \E i \in 1..Len(c.lru) : c.lru[i].key = key
    THEN CHOOSE i \in 1..Len(c.lru) : c.lru[i].key = key
    ELSE 0

\* list.MoveToFront
MoveToFront(l, i) == <<l[i]>> \o SubSeq(l, 1, i - 1) \o SubSeq(l, i + 1, Len(l))

\* a Get that leaves the recency list alone
CacheGetNoPromote(c, key) ==
    IF c.kind = "simple"
    THEN IF key \in DOMAIN c.cache
         THEN [value |-> c.cache[key], ok |-> TRUE, cache |-> c]
         ELSE [value |-> <<>>, ok |-> FALSE, cache |-> c]
    ELSE LET i == LRUIndex(c, key)
         IN  IF i # 0
             THEN [value |-> c.lru[i].value, ok |-> TRUE, cache |-> c]
             ELSE [value |-> <<>>, ok |-> FALSE, cache |-> c]

\* Cache.Get: the value, whether it was found, and the cache after the call
CacheGet(c, key) ==
    IF c.kind = "simple"
    THEN IF key \in DOMAIN c.cache
         THEN [value |-> c.cache[key], ok |-> TRUE, cache |-> c]
         ELSE [value |-> <<>>, ok |-> FALSE, cache |-> c]
    ELSE LET i == LRUIndex(c, key)
         IN  IF i # 0
             THEN [value |-> c.lru[i].value, ok |-> TRUE,
                   cache |-> [c EXCEPT !.lru = MoveToFront(c.lru, i)]]
             ELSE [value |-> <<>>, ok |-> FALSE, cache |-> c]

\* a Put that leaves the value of a key it already holds
CachePutKeepOld(c, key, value) ==
    IF c.kind = "simple"
    THEN IF key \in DOMAIN c.cache THEN c
         ELSE [c EXCEPT !.cache = (key :> value) @@ c.cache]
    ELSE LET i == LRUIndex(c, key)
         IN  IF i # 0
             THEN [c EXCEPT !.lru = MoveToFront(c.lru, i)]
             ELSE LET pushed == <<[key |-> key, value |-> value]>> \o c.lru
                  IN  IF c.capacity > 0 /\ Len(pushed) > c.capacity
                      THEN [c EXCEPT !.lru = SubSeq(pushed, 1, Len(pushed) - 1)]
                      ELSE [c EXCEPT !.lru = pushed]

\* a Put that never evicts
CachePutNoEvict(c, key, value) ==
    IF c.kind = "simple"
    THEN [c EXCEPT !.cache = (key :> value) @@ c.cache]
    ELSE LET i == LRUIndex(c, key)
         IN  IF i # 0
             THEN [c EXCEPT !.lru = <<[key |-> key, value |-> value]>>
                                    \o SubSeq(c.lru, 1, i - 1)
                                    \o SubSeq(c.lru, i + 1, Len(c.lru))]
             ELSE [c EXCEPT !.lru = <<[key |-> key, value |-> value]>> \o c.lru]

\* Cache.Put: the cache after the call
CachePut(c, key, value) ==
    IF c.kind = "simple"
    THEN [c EXCEPT !.cache = (key :> value) @@ c.cache]
    ELSE LET i == LRUIndex(c, key)
         IN  IF i # 0
             THEN [c EXCEPT !.lru = <<[key |-> key, value |-> value]>>
                                    \o SubSeq(c.lru, 1, i - 1)
                                    \o SubSeq(c.lru, i + 1, Len(c.lru))]
             ELSE LET pushed == <<[key |-> key, value |-> value]>> \o c.lru
                  IN  IF c.capacity > 0 /\ Len(pushed) > c.capacity
                      THEN [c EXCEPT !.lru = SubSeq(pushed, 1, Len(pushed) - 1)]
                      ELSE [c EXCEPT !.lru = pushed]

\* the keys the cache holds
CacheKeys(c) ==
    IF c.kind = "simple" THEN DOMAIN c.cache
    ELSE {c.lru[i].key : i \in 1..Len(c.lru)}

\* the value the cache holds for a key it holds
CacheValue(c, key) ==
    IF c.kind = "simple" THEN c.cache[key] ELSE c.lru[LRUIndex(c, key)].value

----------------------------------------------------------------------------
(* Byte-pair encoding.  The nodes of the linked list live in a sequence; a  *)
(* pointer is an index into it and 0 is nil.  The queue is the set of the   *)
(* nodes pushed and not yet popped.  MergePrio, mergePrio + OrigPos /       *)
(* pretokenLen in the code, is kept scaled by pretokenLen, which is the     *)
(* same for every node of one call and larger than every OrigPos.           *)

\* a Processor value: Tokens is the ID-to-string table on the IDs the model
\* spells out, NumTokens is len(p.Tokens), TokenLookup and MergeRules are the
\* two maps, Cache is the cache
Processor(tokenTable, numTokens, tokenLookup, mergeRules, c) ==
    [Tokens |-> tokenTable, NumTokens |-> numTokens, TokenLookup |-> tokenLookup,
     MergeRules |-> mergeRules, Cache |-> c]

\* the Processor that Tokenizer.performBPE builds from the tokenizer's tables
processor(c) == Processor(TokenTable, NumTokens, TokenLookupMap, MergeRulesMap, c)

\* p.Tokens[id]
ProcessorToken(p, id) == IF id \in DOMAIN p.Tokens THEN p.Tokens[id] ELSE VocabData(id)

\* id, ok := p.TokenLookup[s]
ProcessorLookup(p, s) ==
    IF s \in DOMAIN p.TokenLookup THEN <<p.TokenLookup[s], TRUE>> ELSE <<0, FALSE>>

\* Processor.getMergeIdentifier
ProcessorMergeIdentifier(p, firstTokenID, secondTokenID) ==
    IF firstTokenID >= p.NumTokens \/ secondTokenID >= p.NumTokens THEN <<>>
    ELSE ProcessorToken(p, firstTokenID) \o <<32>> \o ProcessorToken(p, secondTokenID)

MergeNode(origPos, tokenID, prev, next) ==
    [OrigPos |-> origPos, TokenID |-> tokenID, Prev |-> prev, Next |-> next,
     Deleted |-> FALSE, MergePrio |-> 0, MergeToString |-> <<>>]

\* pretokenToIDs: one ID per character, characters not in the vocabulary
\* are skipped
pretokenToIDs(p, pretoken) ==
    Bind(SelectSeq(ToRunes(pretoken), LAMBDA r : ProcessorLookup(p, FromRunes(<<r>>))[2]),
         LAMBDA known : [i \in 1..Len(known) |-> ProcessorLookup(p, FromRunes(<<known[i]>>))[1]])

\* a queue entry without the position bias
addToMergeQueueNoBias(p, st, leftNode, pretokenLen) ==
    LET n == st.nodes[leftNode]
    IN  IF n.Next = 0 THEN st
        ELSE Bind(ProcessorMergeIdentifier(p, n.TokenID, st.nodes[n.Next].TokenID),
                  LAMBDA ident :
                    IF ident \notin DOMAIN p.MergeRules THEN st
                    ELSE [st EXCEPT
                            !.nodes[leftNode].MergePrio = p.MergeRules[ident] * pretokenLen,
                            !.nodes[leftNode].MergeToString =
                                SelectSeq(ident, LAMBDA b : b # 32),
                            !.pq = @ \cup {leftNode}])

addToMergeQueue(p, st, leftNode, pretokenLen) ==
    LET n == st.nodes[leftNode]
    IN  IF n.Next = 0 THEN st
        ELSE Bind(ProcessorMergeIdentifier(p, n.TokenID, st.nodes[n.Next].TokenID),
                  LAMBDA ident :
                    IF ident \notin DOMAIN p.MergeRules THEN st
                    ELSE [st EXCEPT
                            !.nodes[leftNode].MergePrio =
                                p.MergeRules[ident] * pretokenLen + n.OrigPos,
                            !.nodes[leftNode].MergeToString =
                                SelectSeq(ident, LAMBDA b : b # 32),
                            !.pq = @ \cup {leftNode}])

RECURSIVE QueueFrom(_, _, _, _)
QueueFrom(p, st, i, pretokenLen) ==
    IF i >= Len(st.nodes) THEN st
    ELSE QueueFrom(p, addToMergeQueue(p, st, i, pretokenLen), i + 1, pretokenLen)

\* buildMergeList: the list of the initial tokens, each adjacent pair with a
\* merge rule queued
buildMergeList(p, tokenIDs, pretokenLen) ==
    LET n == Len(tokenIDs)
        linked == [i \in 1..n |->
                     MergeNode(i - 1, tokenIDs[i], i - 1, IF i < n THEN i + 1 ELSE 0)]
    IN  QueueFrom(p, [nodes |-> linked, first |-> IF n = 0 THEN 0 ELSE 1, pq |-> {}],
                  1, pretokenLen)

\* a queue that orders candidates of one merge rule from the right
PopMinRightmost(st) ==
    CHOOSE x \in st.pq : \A y \in st.pq :
        LET rx == st.nodes[x].MergePrio - st.nodes[x].OrigPos
            ry == st.nodes[y].MergePrio - st.nodes[y].OrigPos
        IN  \/ rx < ry
            \/ rx = ry /\ st.nodes[x].OrigPos > st.nodes[y].OrigPos
            \/ rx = ry /\ st.nodes[x].OrigPos = st.nodes[y].OrigPos /\ x <= y

\* heap.Pop: a node of least MergePrio
PopMin(st) ==
    CHOOSE x \in st.pq : \A y \in st.pq :
        \/ st.nodes[x].MergePrio < st.nodes[y].MergePrio
        \/ st.nodes[x].MergePrio = st.nodes[y].MergePrio /\ x <= y

\* a validity check that does not look at the Deleted mark of the node
isValidMergeLeftUnchecked(st, node) ==
    /\ node # 0
    /\ st.nodes[node].Next # 0
    /\ ~st.nodes[st.nodes[node].Next].Deleted

isValidMerge(st, node) ==
    /\ node # 0
    /\ ~st.nodes[node].Deleted
    /\ st.nodes[node].Next # 0
    /\ ~st.nodes[st.nodes[node].Next].Deleted

updatePreviousNode(st, leftOfMerge) ==
    LET oldPrev == st.nodes[leftOfMerge].Prev
        newPrev == Len(st.nodes) + 1
        copy    == MergeNode(st.nodes[oldPrev].OrigPos, st.nodes[oldPrev].TokenID,
                             st.nodes[oldPrev].Prev, st.nodes[oldPrev].Next)
        s1      == [st EXCEPT !.nodes = Append([@ EXCEPT ![oldPrev].Deleted = TRUE,
                                                         ![leftOfMerge].Prev = newPrev],
                                               copy)]
    IN  IF copy.Prev # 0
        THEN [s1 EXCEPT !.nodes[copy.Prev].Next = newPrev]
        ELSE [s1 EXCEPT !.first = newPrev]

updateMergeLinks(p, st, resultOfMerge, pretokenLen) ==
    LET r == st.nodes[resultOfMerge]
    IN  Bind(IF r.Prev # 0
             THEN addToMergeQueue(p, [st EXCEPT !.nodes[r.Prev].Next = resultOfMerge],
                                  r.Prev, pretokenLen)
             ELSE [st EXCEPT !.first = resultOfMerge],
             LAMBDA s1 :
               IF r.Next # 0
               THEN addToMergeQueue(p, [s1 EXCEPT !.nodes[r.Next].Prev = resultOfMerge],
                                    resultOfMerge, pretokenLen)
               ELSE s1)

\* a merge that unlinks the two nodes although the merged string has no ID
performMergeUnlinkMissing(p, st, leftOfMerge, pretokenLen) ==
    Bind([st EXCEPT !.nodes[leftOfMerge].Deleted = TRUE,
                    !.nodes[st.nodes[leftOfMerge].Next].Deleted = TRUE],
         LAMBDA s1 :
           Bind(IF s1.nodes[leftOfMerge].Prev # 0
                THEN updatePreviousNode(s1, leftOfMerge) ELSE s1,
                LAMBDA s2 :
                  LET l == s2.nodes[leftOfMerge]
                      after == s2.nodes[l.Next].Next
                  IN  Bind(ProcessorLookup(p, l.MergeToString),
                           LAMBDA id :
                             IF ~id[2]
                             THEN IF l.Prev # 0
                                  THEN [s2 EXCEPT !.nodes[l.Prev].Next = after]
                                  ELSE [s2 EXCEPT !.first = after]
                             ELSE updateMergeLinks(p,
                                    [s2 EXCEPT !.nodes =
                                        Append(@, MergeNode(l.OrigPos, id[1], l.Prev, after))],
                                    Len(s2.nodes) + 1, pretokenLen))))

performMerge(p, st, leftOfMerge, pretokenLen) ==
    Bind([st EXCEPT !.nodes[leftOfMerge].Deleted = TRUE,
                    !.nodes[st.nodes[leftOfMerge].Next].Deleted = TRUE],
         LAMBDA s1 :
           Bind(IF s1.nodes[leftOfMerge].Prev # 0
                THEN updatePreviousNode(s1, leftOfMerge) ELSE s1,
                LAMBDA s2 :
                  LET l == s2.nodes[leftOfMerge]
                  IN  Bind(ProcessorLookup(p, l.MergeToString),
                           LAMBDA id :
                             IF ~id[2] THEN s2
                             ELSE updateMergeLinks(p,
                                    [s2 EXCEPT !.nodes =
                                        Append(@, MergeNode(l.OrigPos, id[1], l.Prev,
                                                            s2.nodes[l.Next].Next))],
                                    Len(s2.nodes) + 1, pretokenLen))))

\* an iteration that leaves the popped entry in the queue
MergeStepNoPop(p, st, pretokenLen) ==
    Bind(PopMin(st),
         LAMBDA leftOfMerge :
           IF ~isValidMerge(st, leftOfMerge) THEN st
           ELSE performMerge(p, st, leftOfMerge, pretokenLen))

\* one iteration of the merge loop: pop, skip an entry that is no longer
\* valid, otherwise merge
MergeStep(p, st, pretokenLen) ==
    Bind(PopMin(st),
         LAMBDA leftOfMerge :
           Bind([st EXCEPT !.pq = @ \ {leftOfMerge}],
                LAMBDA popped :
                  IF ~isValidMerge(popped, leftOfMerge) THEN popped
                  ELSE performMerge(p, popped, leftOfMerge, pretokenLen)))

RECURSIVE MergeLoop(_, _, _)
MergeLoop(p, st, pretokenLen) ==
    IF st.pq = {} THEN st ELSE MergeLoop(p, MergeStep(p, st, pretokenLen), pretokenLen)

\* the token IDs of the list from node on, following Next
RECURSIVE CollectIDs(_, _)
CollectIDs(st, node) ==
    IF node = 0 THEN <<>>
    ELSE <<st.nodes[node].TokenID>> \o CollectIDs(st, st.nodes[node].Next)

\* a processor that never finds the whole pre-token in the vocabulary
tryDirectMatchNever(p, pretoken) == <<0, FALSE>>

\* the check for a direct vocabulary match: <<tokenID, ok>>
tryDirectMatch(p, pretoken) == ProcessorLookup(p, pretoken)

\* PerformBPE between the cache miss and the Put: the direct vocabulary
\* match, the initial tokens, the merge loop
ComputeBPE(p, pretoken) ==
    Bind(tryDirectMatch(p, pretoken),
         LAMBDA id :
           IF id[2] THEN <<id[1]>>
           ELSE Bind(pretokenToIDs(p, pretoken),
                     LAMBDA tokenIDs :
                       IF Len(tokenIDs) <= 1 THEN tokenIDs
                       ELSE Bind(MergeLoop(p, buildMergeList(p, tokenIDs, Len(pretoken)),
                                           Len(pretoken)),
                                 LAMBDA st : CollectIDs(st, st.first))))

\* a PerformBPE that stores the initial tokens, not the merged ones
PerformBPEPutInitial(p, pretoken) ==
    Bind(CacheGet(p.Cache, pretoken),
         LAMBDA got :
           IF got.ok THEN [ids |-> got.value, cache |-> got.cache]
           ELSE [ids |-> ComputeBPE(p, pretoken),
                 cache |-> CachePut(got.cache, pretoken, pretokenToIDs(p, pretoken))])

\* Processor.PerformBPE: the IDs and the cache after the call
PerformBPE(p, pretoken) ==
    Bind(CacheGet(p.Cache, pretoken),
         LAMBDA got :
           IF got.ok THEN [ids |-> got.value, cache |-> got.cache]
           ELSE Bind(ComputeBPE(p, pretoken),
                     LAMBDA result :
                       [ids |-> result,
                        cache |-> CachePut(got.cache, pretoken, result)]))

\* Tokenizer.performBPE: a Processor over the tokenizer's tables and cache
performBPE(c, pretoken) == PerformBPE(processor(c), pretoken)

----------------------------------------------------------------------------
(* Special tokens in the text.                                              *)

\* strings.HasPrefix(txt[p:], s)
HasPrefixAt(txt, p, s) ==
    p + Len(s) <= Len(txt) /\ SubSeq(txt, p + 1, p + Len(s)) = s

\* the named alternatives of SpecialTokenRegex
SpecialNames ==
    { <<98, 101, 103, 105, 110, 95, 111, 102, 95, 116, 101, 120, 116>>,
      <<101, 110, 100, 95, 111, 102, 95, 116, 101, 120, 116>>,
      <<115, 116, 97, 114, 116, 95, 104, 101, 97, 100, 101, 114, 95, 105, 100>>,
      <<101, 110, 100, 95, 104, 101, 97, 100, 101, 114, 95, 105, 100>>,
      <<101, 111, 116, 95, 105, 100>>,
      <<101, 111, 109, 95, 105, 100>>,
      <<112, 121, 116, 104, 111, 110, 95, 116, 97, 103>>,
      <<102, 105, 110, 101, 116, 117, 110, 101, 95, 114, 105, 103, 104, 116, 95, 112, 97, 100, 95, 105, 100>> }

ReservedPrefix == <<114, 101, 115, 101, 114, 118, 101, 100, 95, 115, 112, 101, 99, 105, 97, 108, 95, 116, 111, 107, 101, 110, 95>>

\* a number pattern that stops at two digits
ReservedNumberAtTwoDigits(txt, d, k) ==
    /\ d + k <= Len(txt)
    /\ LET dig(i, lo, hi) == txt[d + i] >= 48 + lo /\ txt[d + i] <= 48 + hi
       IN  CASE k = 1 -> dig(1, 0, 9)
             [] k = 2 -> dig(1, 1, 9) /\ dig(2, 0, 9)
             [] k = 3 -> FALSE

\* (?:[0-9]|[1-9][0-9]|1[0-9][0-9]|2[0-3][0-9]|24[0-7]) matching exactly
\* the k bytes at d
ReservedNumberAt(txt, d, k) ==
    /\ d + k <= Len(txt)
    /\ LET dig(i, lo, hi) == txt[d + i] >= 48 + lo /\ txt[d + i] <= 48 + hi
       IN  CASE k = 1 -> dig(1, 0, 9)
             [] k = 2 -> dig(1, 1, 9) /\ dig(2, 0, 9)
             [] k = 3 -> \/ dig(1, 1, 1) /\ dig(2, 0, 9) /\ dig(3, 0, 9)
                         \/ dig(1, 2, 2) /\ dig(2, 0, 3) /\ dig(3, 0, 9)
                         \/ dig(1, 2, 2) /\ dig(2, 4, 4) /\ dig(3, 0, 7)

\* the end of the match of SpecialTokenRegex that starts at p, or p when
\* there is none (the body holds no '|', so the match is unique)
MatchSpecialAt(txt, p) ==
    IF ~HasPrefixAt(txt, p, <<60, 124>>) THEN p
    ELSE LET q     == p + 2
             named == {q + Len(n) : n \in {m \in SpecialNames : HasPrefixAt(txt, q, m)}}
             resv  == IF HasPrefixAt(txt, q, ReservedPrefix)
                      THEN {q + Len(ReservedPrefix) + k :
                               k \in {j \in 1..3 :
                                        ReservedNumberAt(txt, q + Len(ReservedPrefix), j)}}
                      ELSE {}
             ends  == {e \in named \cup resv : HasPrefixAt(txt, e, <<124, 62>>)}
         IN  IF ends = {} THEN p ELSE (CHOOSE e \in ends : TRUE) + 2

\* regex.FindAllStringIndex(txt, -1) from p on: the leftmost matches, not
\* overlapping, as <<start, end>>
RECURSIVE FindAllStringIndex(_, _)
FindAllStringIndex(txt, p) ==
    IF p >= Len(txt) THEN <<>>
    ELSE Bind(MatchSpecialAt(txt, p),
              LAMBDA e : IF e # p THEN <<<<p, e>>>> \o FindAllStringIndex(txt, e)
                         ELSE FindAllStringIndex(txt, p + 1))

\* regex.MatchString: the pattern matches somewhere in the string
MatchString(part) == \E p \in 0..(Len(part) - 1) : MatchSpecialAt(part, p) # p

\* a loop that leaves out the text after the last match
RECURSIVE SplitLoopNoRest(_, _, _, _)
SplitLoopNoRest(txt, matches, i, lastEnd) ==
    IF i > Len(matches) THEN <<>>
    ELSE LET start == matches[i][1]
             end   == matches[i][2]
         IN  (IF start > lastEnd THEN <<Slice(txt, lastEnd, start)>> ELSE <<>>)
             \o (IF end > start THEN <<Slice(txt, start, end)>> ELSE <<>>)
             \o SplitLoopNoRest(txt, matches, i + 1, end)

\* the loop of SplitBySpecialTokens over the matches from the i-th on
RECURSIVE SplitLoop(_, _, _, _)
SplitLoop(txt, matches, i, lastEnd) ==
    IF i > Len(matches)
    THEN IF lastEnd < Len(txt) THEN <<Slice(txt, lastEnd, Len(txt))>> ELSE <<>>
    ELSE LET start == matches[i][1]
             end   == matches[i][2]
         IN  (IF start > lastEnd THEN <<Slice(txt, lastEnd, start)>> ELSE <<>>)
             \o (IF end > start THEN <<Slice(txt, start, end)>> ELSE <<>>)
             \o SplitLoop(txt, matches, i + 1, end)

\* splitBySpecialTokens(text, regex), the regex given by the matches that
\* regex.FindAllStringIndex(text, -1) returns
splitBySpecialTokens(txt, matches) ==
    IF txt = <<>> THEN <<>>
    ELSE IF matches = <<>> THEN <<txt>>
    ELSE SplitLoop(txt, matches, 1, 0)

\* the split by SpecialTokenRegex
SplitBySpecialTokens(txt) ==
    IF txt = <<>> THEN <<>>
    ELSE Bind(FindAllStringIndex(txt, 0),
              LAMBDA matches : splitBySpecialTokens(txt, matches))

----------------------------------------------------------------------------
(* Encode and Decode.                                                       *)

\* a nil *EncodeOptions, and the options BOS and EOS
NilOptions == [nil |-> TRUE, BOS |-> FALSE, EOS |-> FALSE]

Options(bos, eos) == [nil |-> FALSE, BOS |-> bos, EOS |-> eos]

\* defaults that leave the end-of-text token out
defaultEncodeOptionsNoEOS == Options(TRUE, FALSE)

defaultEncodeOptions == Options(TRUE, TRUE)

\* pretokenize: the pre-tokens of the state machine, byte-encoded
pretokenize(txt) ==
    Bind(Tokenize(txt), LAMBDA parts : [i \in 1..Len(parts) |-> EncodeBytes(parts[i])])

\* the loop over the pre-tokens of one part, from the i-th on
RECURSIVE EncodePretokens(_, _, _)
EncodePretokens(c, pretokens, i) ==
    IF i > Len(pretokens) THEN [ids |-> <<>>, cache |-> c]
    ELSE IF pretokens[i] = <<>> THEN EncodePretokens(c, pretokens, i + 1)
    ELSE Bind(performBPE(c, pretokens[i]),
              LAMBDA r :
                Bind(EncodePretokens(r.cache, pretokens, i + 1),
                     LAMBDA rest : [ids |-> r.ids \o rest.ids, cache |-> rest.cache]))

\* the loop over the parts of the special-token split, from the i-th on
RECURSIVE EncodeParts(_, _, _)
EncodeParts(c, parts, i) ==
    IF i > Len(parts) THEN [ids |-> <<>>, cache |-> c]
    ELSE Bind(IF MatchString(parts[i]) /\ TokenLookup(parts[i]) # 0
              THEN [ids |-> <<TokenLookup(parts[i])>>, cache |-> c]
              ELSE EncodePretokens(c, pretokenize(parts[i]), 1),
              LAMBDA r :
                Bind(EncodeParts(r.cache, parts, i + 1),
                     LAMBDA rest : [ids |-> r.ids \o rest.ids, cache |-> rest.cache]))

\* Encode: the IDs and the cache after the call
Encode(c, txt, o) ==
    LET opt == IF o.nil THEN defaultEncodeOptions ELSE o
    IN  Bind(GetSpecialTokenID(beginOfTextToken), LAMBDA bos :
        Bind(GetSpecialTokenID(endOfTextToken), LAMBDA eos :
        Bind(EncodeParts(c, SplitBySpecialTokens(txt), 1), LAMBDA body :
          [ids   |-> (IF opt.BOS /\ bos[2] THEN <<bos[1]>> ELSE <<>>)
                     \o body.ids
                     \o (IF opt.EOS /\ eos[2] THEN <<eos[1]>> ELSE <<>>),
           cache |-> body.cache])))

\* a decoder that stops at the first ID out of range
RECURSIVE DecodeBytesStopAtInvalid(_)
DecodeBytesStopAtInvalid(tokenIDs) ==
    IF tokenIDs = <<>> THEN <<>>
    ELSE IF Head(tokenIDs) < 0 \/ Head(tokenIDs) >= NumTokens THEN <<>>
    ELSE DecodeTokenBytes(Tokens(Head(tokenIDs))) \o DecodeBytesStopAtInvalid(Tail(tokenIDs))

\* DecodeBytes: IDs out of range are skipped
RECURSIVE DecodeBytes(_)
DecodeBytes(tokenIDs) ==
    IF tokenIDs = <<>> THEN <<>>
    ELSE (IF Head(tokenIDs) < 0 \/ Head(tokenIDs) >= NumTokens THEN <<>>
          ELSE DecodeTokenBytes(Tokens(Head(tokenIDs))))
         \o DecodeBytes(Tail(tokenIDs))

\* Decode: string(DecodeBytes(tokenIDs))
Decode(tokenIDs) == DecodeBytes(tokenIDs)

----------------------------------------------------------------------------
(* The pre-tokenizer run step by step: Tokenize(text) on a pooled machine.  *)

\* The pieces inputs are built from: a, s, S, apostrophe, 1, superscript two
\* (U+00B2, category No), space, tab, newline, '!', and a stray lead byte.
PrePieces ==
    { <<97>>, <<115>>, <<83>>, <<39>>, <<49>>, <<194, 178>>,
      <<32>>, <<9>>, <<10>>, <<33>>, <<194>> }

PreTexts == {Concat(ps) : ps \in SeqsUpTo(PrePieces, MaxPieces)}

NoCall == [kind |-> "none"]

InitPre ==
    /\ text \in PreTexts
    /\ input = ToRunes(text)            \* getStateMachine
    /\ position = 0
    /\ tokens = <<>>
    /\ opts = NilOptions /\ cache = <<>> /\ output = <<>> /\ decoded = <<>>
    /\ phase = "tokenize"
    /\ gor = <<>> /\ pool = <<>> /\ sc = NoCall /\ rd = NoCall /\ hist = NoCall /\ bpe = NoCall /\ codec = NoCall /\ stream = NoCall

\* one iteration of the loop of Tokenize: sm.matchNext()
MatchNext ==
    /\ phase = "tokenize"
    /\ position < Len(input)
    /\ position' = matchNext(input, position)
    /\ LET m == matchToken(input, position)
       IN  tokens' = Append(tokens, FromRunes(Slice(input, m[1], m[2])))
    /\ UNCHANGED <<text, input, opts, cache, output, decoded, phase, gor, pool, sc, rd, hist, bpe, codec, stream>>

\* the loop is over: Tokenize returns a copy of sm.tokens
TokenizeReturn ==
    /\ phase = "tokenize"
    /\ position >= Len(input)
    /\ phase' = "returned"
    /\ output' = tokens
    /\ UNCHANGED <<text, input, position, tokens, opts, cache, decoded, gor, pool, sc, rd, hist, bpe, codec, stream>>

NextPre == MatchNext \/ TokenizeReturn

SpecPre == InitPre /\ [][NextPre]_vars

\* the caller of Tokenize runs: the loop is a plain for loop in one goroutine
SpecPreFair == SpecPre /\ WF_vars(NextPre)

----------------------------------------------------------------------------
(* Properties of the pre-tokenizer (SpecPre).                               *)

\* the start positions follow from the tokens emitted so far
RuneLen(bs) == Len(ToRunes(bs))

RECURSIVE StartOf(_, _)
StartOf(ts, k) == IF k <= 1 THEN 0 ELSE StartOf(ts, k - 1) + RuneLen(ts[k - 1])

\* C2, as stated: for every input string, every pre-token returned by
\* Tokenize is non-empty and their concatenation in order is the input; the
\* empty input gives no pre-tokens.
C2_CoverageAnyString ==
    phase = "returned" =>
        /\ \A i \in 1..Len(output) : output[i] # <<>>
        /\ Concat(output) = text
        /\ (text = <<>> => output = <<>>)

\* C2, amended: for every valid UTF-8 input, every pre-token returned by
\* Tokenize is non-empty and their concatenation in order is the input; the
\* empty input gives no pre-tokens.
C2_CoverageValidUTF8 ==
    (phase = "returned" /\ ValidUTF8(text)) =>
        /\ \A i \in 1..Len(output) : output[i] # <<>>
        /\ Concat(output) = text
        /\ (text = <<>> => output = <<>>)

C2_Witness ==
    /\ phase = "returned"
    /\ ValidUTF8(text)
    /\ Len(output) >= 3
    /\ \E i \in 1..Len(output) : Len(output[i]) >= 2
    /\ \E i \in 1..Len(text) : text[i] >= 128

\* C3, as stated: the state machine returns exactly the successive matches
\* of the reference pattern, in order.
C3_MatchesReferenceRegex ==
    phase = "returned" => output = RxMatches(input, 0)

\* the whitespace rule is the one applied at p: rules 1 to 5 do not match
\* and the rune at p is whitespace
WhitespaceRuleApplies(in, p) ==
    /\ p < Len(in)
    /\ tryContraction(in, p) = p
    /\ tryWordWithPrefix(in, p) = p
    /\ tryNumbers(in, p) = p
    /\ tryPunctuationWithSpace(in, p) = p
    /\ tryNewlineSequence(in, p) = p
    /\ IsSpaceRune(in[p + 1])

\* the length n of the maximal whitespace run that starts at p
RECURSIVE WhitespaceRun(_, _)
WhitespaceRun(in, p) ==
    IF p < Len(in) /\ IsSpaceRune(in[p + 1]) THEN 1 + WhitespaceRun(in, p + 1) ELSE 0

\* C4: when the whitespace rule applies at a position where the maximal
\* whitespace run has n codepoints, the pre-token emitted is the first n-1
\* codepoints of the run if n >= 2 and a non-whitespace codepoint follows
\* the run, and the whole run if n = 1 or the run reaches the end of input.
C4_WhitespaceBackoff ==
    [][ (phase = "tokenize" /\ WhitespaceRuleApplies(input, position)) =>
          LET n == WhitespaceRun(input, position)
              k == IF n >= 2 /\ position + n < Len(input) THEN n - 1 ELSE n
          IN  /\ tokens' = Append(tokens, FromRunes(Slice(input, position, position + k)))
              /\ position' = position + k ]_vars

C4_Witness ==
    \E i \in 1..Len(tokens) :
        LET p == StartOf(tokens, i)
            n == WhitespaceRun(input, p)
        IN  /\ WhitespaceRuleApplies(input, p)
            /\ n >= 2
            /\ p + n < Len(input)
            /\ RuneLen(tokens[i]) = n - 1
            /\ \E j \in 1..Len(tokens) :
                  /\ WhitespaceRuleApplies(input, StartOf(tokens, j))
                  /\ StartOf(tokens, j) + WhitespaceRun(input, StartOf(tokens, j)) = Len(input)
                  /\ RuneLen(tokens[j]) = WhitespaceRun(input, StartOf(tokens, j))

----------------------------------------------------------------------------
(* One Encode call followed by Decode of its result (SpecEnc).              *)

beginOfTextTokenID == 128000

endOfTextTokenID == 128001

\* The pieces texts are built from: a, space, e-acute (two bytes), the lone
\* lead byte 0xC3, three strict special tokens, and a reserved token whose
\* number is out of range.
EncPieces ==
    { <<97>>, <<32>>, <<195, 169>>, <<195>>,
      beginOfTextToken,
      <<60, 124, 101, 111, 116, 95, 105, 100, 124, 62>>,
      <<60, 124, 114, 101, 115, 101, 114, 118, 101, 100, 95, 115, 112, 101, 99, 105, 97, 108, 95, 116, 111, 107, 101, 110, 95, 50, 52, 55, 124, 62>>,
      <<60, 124, 114, 101, 115, 101, 114, 118, 101, 100, 95, 115, 112, 101, 99, 105, 97, 108, 95, 116, 111, 107, 101, 110, 95, 50, 52, 56, 124, 62>> }

EncTexts == {Concat(ps) : ps \in SeqsUpTo(EncPieces, MaxParts)}

AllOptions == {NilOptions} \cup {Options(b, e) : b \in BOOLEAN, e \in BOOLEAN}

InitEnc ==
    /\ text \in EncTexts
    /\ opts \in AllOptions
    /\ cache \in {NewSimple, NewLRU(1)}
    /\ phase = "start"
    /\ output = <<>> /\ decoded = <<>>
    /\ input = <<>> /\ position = 0 /\ tokens = <<>>
    /\ gor = <<>> /\ pool = <<>> /\ sc = NoCall /\ rd = NoCall /\ hist = NoCall /\ bpe = NoCall /\ codec = NoCall /\ stream = NoCall

\* output := t.Encode(text, opts)
EncodeCall ==
    /\ phase = "start"
    /\ \E r \in {Encode(cache, text, opts)} :
          output' = r.ids /\ cache' = r.cache
    /\ phase' = "encoded"
    /\ UNCHANGED <<text, input, position, tokens, opts, decoded, gor, pool, sc, rd, hist, bpe, codec, stream>>

\* decoded := t.Decode(output)
DecodeCall ==
    /\ phase = "encoded"
    /\ decoded' = Decode(output)
    /\ phase' = "decoded"
    /\ UNCHANGED <<text, input, position, tokens, opts, cache, output, gor, pool, sc, rd, hist, bpe, codec, stream>>

NextEnc == EncodeCall \/ DecodeCall

SpecEnc == InitEnc /\ [][NextEnc]_vars

C5_Framing ==
    phase = "encoded" =>
        LET b    == opts.nil \/ opts.BOS
            e    == opts.nil \/ opts.EOS
            bare == Encode(NewSimple, text, Options(FALSE, FALSE)).ids
        IN  /\ output = (IF b THEN <<beginOfTextTokenID>> ELSE <<>>)
                        \o bare
                        \o (IF e THEN <<endOfTextTokenID>> ELSE <<>>)
            /\ (opts.nil /\ text = <<>>) => output = <<128000, 128001>>

C5_Witness ==
    /\ phase = "encoded"
    /\ opts.nil
    /\ text # <<>>
    /\ Len(output) >= 3
    /\ output[1] = 128000
    /\ output[Len(output)] = 128001

\* the strict special tokens among the pieces
StrictSpecialPieces ==
    { beginOfTextToken,
      <<60, 124, 101, 111, 116, 95, 105, 100, 124, 62>>,
      <<60, 124, 114, 101, 115, 101, 114, 118, 101, 100, 95, 115, 112, 101, 99, 105, 97, 108, 95, 116, 111, 107, 101, 110, 95, 50, 52, 55, 124, 62>> }

\* the ID of a special token: its place in the token list
SpecialID(token) == CHOOSE id \in baseVocabSize..(NumTokens - 1) : Tokens(id) = token

\* C6: encoding, without BOS and EOS, a text that is a concatenation of
\* strict special tokens gives exactly the IDs of those tokens, one per
\* token, in order of appearance.
C6_SpecialTokensOnly ==
    (phase = "encoded" /\ opts = Options(FALSE, FALSE)) =>
        \A ps \in SeqsUpTo(StrictSpecialPieces, MaxParts) :
            Concat(ps) = text => output = [i \in 1..Len(ps) |-> SpecialID(ps[i])]

C6_Witness ==
    /\ phase = "encoded"
    /\ opts = Options(FALSE, FALSE)
    /\ text = <<60, 124, 101, 111, 116, 95, 105, 100, 124, 62>> \o
              <<60, 124, 114, 101, 115, 101, 114, 118, 101, 100, 95, 115, 112, 101, 99, 105, 97, 108, 95, 116, 111, 107, 101, 110, 95, 50, 52, 55, 124, 62>> \o
              beginOfTextToken
    /\ output = <<128009, 128255, 128000>>

----------------------------------------------------------------------------
(* Encode calls one after another on one tokenizer (SpecCache).             *)

\* "a", "aa", "a a", " aa", e-acute
CacheTexts == { <<97>>, <<97, 97>>, <<97, 32, 97>>, <<32, 97, 97>>, <<195, 169>> }

\* New with WithCacheSize(0), (1), (2)
InitCache ==
    /\ cache \in {NewSimple, NewLRU(1), NewLRU(2)}
    /\ text = <<>> /\ opts = NilOptions /\ output = <<>>
    /\ hist = [calls |-> 0, before |-> cache] /\ bpe = NoCall /\ codec = NoCall /\ stream = NoCall
    /\ phase = "idle"
    /\ decoded = <<>> /\ input = <<>> /\ position = 0 /\ tokens = <<>>
    /\ gor = <<>> /\ pool = <<>> /\ sc = NoCall /\ rd = NoCall

\* output := t.Encode(s, o); hist keeps the cache the call found
EncodeAgain ==
    /\ phase = "idle"
    /\ hist.calls < MaxCalls
    /\ \E s \in CacheTexts, o \in {NilOptions, Options(FALSE, FALSE)} :
          \E r \in {Encode(cache, s, o)} :
             /\ text' = s /\ opts' = o
             /\ output' = r.ids /\ cache' = r.cache
    /\ hist' = [calls |-> hist.calls + 1, before |-> cache]
    /\ UNCHANGED <<input, position, tokens, decoded, phase, gor, pool, sc, rd, bpe, codec, stream>>

NextCache == EncodeAgain

SpecCache == InitCache /\ [][NextCache]_vars

\* C7: repeated Encode(s, o) calls return the same IDs whatever the cache
\* holds: every entry of the cache holds what BPE computes for its key, so a
\* hit gives what a miss gives, and every call returns what the call returns
\* on an empty cache, with the unlimited and the LRU cache, after any
\* earlier calls and evictions.
C7_CacheTransparent ==
    /\ \A k \in CacheKeys(cache) : CacheValue(cache, k) = ComputeBPE(processor(cache), k)
    /\ hist.calls >= 1 => output = Encode(NewSimple, text, opts).ids

C7_Witness ==
    /\ hist.calls >= 2
    /\ cache.kind = "lru"
    /\ pretokenize(text)[1] \in CacheKeys(hist.before)
    /\ \E k \in CacheKeys(hist.before) : k \notin CacheKeys(cache)
    /\ Len(pretokenize(text)) = 2
    /\ output = Encode(NewSimple, text, opts).ids

----------------------------------------------------------------------------
(* Goroutines calling Encode and Decode on one tokenizer (SpecConc).  A     *)
(* step is one access to what the goroutines share, the cache under its     *)
(* lock or the pool of state machines, with the local work that follows.    *)

Goroutines == 1..MaxGoroutines

\* "a a", "<|eot_id|>a"
ConcTexts == { <<97, 32, 97>>, <<60, 124, 101, 111, 116, 95, 105, 100, 124, 62, 97>> }

ConcIDs == { <<220, 64>> }

IdleCall ==
    [pc |-> "idle", kind |-> "none", text |-> <<>>, opts |-> NilOptions, ids |-> <<>>,
     parts |-> <<>>, pi |-> 0, sm |-> 0, pretokens |-> <<>>, pj |-> 0,
     out |-> <<>>, result |-> <<>>]

FreeMachine == [busy |-> FALSE, input |-> <<>>, position |-> 0, tokens |-> <<>>]

\* a pool that hands out its first machine whether or not a caller holds it
PoolGetAny(p) == 1

\* stateMachinePool.Get(): a machine no caller holds (the machines are
\* alike, so the first free one stands for any of them)
PoolGet(p) == CHOOSE m \in DOMAIN p : ~p[m].busy /\ \A n \in DOMAIN p : ~p[n].busy => m <= n

\* goroutine g takes a step while another goroutine is in the middle of a
\* call
Overlap(g) ==
    [overlap |-> hist.overlap \/ \E h \in Goroutines \ {g} : gor[h].pc \notin {"idle", "done"}]

InitConc ==
    /\ cache \in {NewSimple, NewLRU(1)}
    /\ gor = [g \in Goroutines |-> IdleCall]
    /\ pool = [m \in Goroutines |-> FreeMachine]
    /\ phase = "concurrent"
    /\ text = <<>> /\ opts = NilOptions /\ output = <<>> /\ decoded = <<>>
    /\ input = <<>> /\ position = 0 /\ tokens = <<>>
    /\ sc = NoCall /\ rd = NoCall /\ hist = [overlap |-> FALSE] /\ bpe = NoCall /\ codec = NoCall /\ stream = NoCall

\* go t.Encode(s, o): the options, the BOS token, the special-token split
StartEncode(g) ==
    /\ gor[g].pc = "idle"
    /\ \E s \in ConcTexts, o \in {NilOptions, Options(FALSE, FALSE)} :
          LET opt == IF o.nil THEN defaultEncodeOptions ELSE o
              bos == GetSpecialTokenID(beginOfTextToken)
          IN  gor' = [gor EXCEPT ![g] =
                        [@ EXCEPT !.pc = "part", !.kind = "encode", !.text = s, !.opts = o,
                                  !.out = IF opt.BOS /\ bos[2] THEN <<bos[1]>> ELSE <<>>,
                                  !.parts = SplitBySpecialTokens(s), !.pi = 1]]
    /\ hist' = Overlap(g)
    /\ UNCHANGED <<text, input, position, tokens, opts, cache, output, decoded, phase, pool,
                   sc, rd, bpe, codec, stream>>

\* go t.Decode(ids): it reads the token list only
StartDecode(g) ==
    /\ gor[g].pc = "idle"
    /\ \E ids \in ConcIDs :
          gor' = [gor EXCEPT ![g] =
                    [@ EXCEPT !.pc = "done", !.kind = "decode", !.ids = ids,
                              !.result = Decode(ids)]]
    /\ hist' = Overlap(g)
    /\ UNCHANGED <<text, input, position, tokens, opts, cache, output, decoded, phase, pool,
                   sc, rd, bpe, codec, stream>>

\* the loop over the parts: past the last part the EOS token and the return
FinishEncode(g) ==
    /\ gor[g].pc = "part"
    /\ gor[g].pi > Len(gor[g].parts)
    /\ LET opt == IF gor[g].opts.nil THEN defaultEncodeOptions ELSE gor[g].opts
           eos == GetSpecialTokenID(endOfTextToken)
       IN  gor' = [gor EXCEPT ![g] =
                     [@ EXCEPT !.pc = "done",
                               !.result = gor[g].out
                                          \o (IF opt.EOS /\ eos[2] THEN <<eos[1]>> ELSE <<>>)]]
    /\ hist' = Overlap(g)
    /\ UNCHANGED <<text, input, position, tokens, opts, cache, output, decoded, phase, pool,
                   sc, rd, bpe, codec, stream>>

\* a part that is not a special token: getStateMachine takes a machine from
\* the pool and gives it the runes of the part
GetStateMachine(g) ==
    /\ gor[g].pc = "part"
    /\ gor[g].pi <= Len(gor[g].parts)
    /\ LET part == gor[g].parts[gor[g].pi]
       IN  /\ ~(MatchString(part) /\ TokenLookup(part) # 0)
           /\ LET m == PoolGet(pool)
              IN  /\ pool' = [pool EXCEPT ![m] = [busy |-> TRUE, input |-> ToRunes(part),
                                                  position |-> 0, tokens |-> <<>>]]
                  /\ gor' = [gor EXCEPT ![g] =
                               [@ EXCEPT !.pc = "tokenize", !.sm = m]]
    /\ hist' = Overlap(g)
    /\ UNCHANGED <<text, input, position, tokens, opts, cache, output, decoded, phase,
                   sc, rd, bpe, codec, stream>>

\* a part that is a special token: its ID is appended
SpecialPart(g) ==
    /\ gor[g].pc = "part"
    /\ gor[g].pi <= Len(gor[g].parts)
    /\ LET part == gor[g].parts[gor[g].pi]
       IN  /\ MatchString(part) /\ TokenLookup(part) # 0
           /\ gor' = [gor EXCEPT ![g] =
                        [@ EXCEPT !.out = Append(@, TokenLookup(part)), !.pi = @ + 1]]
    /\ hist' = Overlap(g)
    /\ UNCHANGED <<text, input, position, tokens, opts, cache, output, decoded, phase, pool,
                   sc, rd, bpe, codec, stream>>

\* the loop of Tokenize on the machine, the copy of its tokens,
\* putStateMachine, and the byte encoding of the pre-tokens.  What the
\* machine holds once it is back in the pool is never read: getStateMachine
\* replaces input and resets position and tokens.
RunStateMachine(g) ==
    /\ gor[g].pc = "tokenize"
    /\ LET m     == gor[g].sm
           found == pool[m].tokens \o TokenizeFrom(pool[m].input, pool[m].position)
       IN  /\ pool' = [pool EXCEPT ![m] = FreeMachine]
           /\ gor' = [gor EXCEPT ![g] =
                        [@ EXCEPT !.pc = "get", !.pj = 1,
                                  !.pretokens = [i \in 1..Len(found) |->
                                                    EncodeBytes(FromRunes(found[i]))]]]
    /\ hist' = Overlap(g)
    /\ UNCHANGED <<text, input, position, tokens, opts, cache, output, decoded, phase,
                   sc, rd, bpe, codec, stream>>

\* past the last pre-token of the part: on to the next part
PartDone(g) ==
    /\ gor[g].pc = "get"
    /\ gor[g].pj > Len(gor[g].pretokens)
    /\ gor' = [gor EXCEPT ![g] = [@ EXCEPT !.pc = "part", !.pi = @ + 1]]
    /\ hist' = Overlap(g)
    /\ UNCHANGED <<text, input, position, tokens, opts, cache, output, decoded, phase, pool,
                   sc, rd, bpe, codec, stream>>

\* PerformBPE up to the return on a hit: Cache.Get under the lock
CacheGetStep(g) ==
    /\ gor[g].pc = "get"
    /\ gor[g].pj <= Len(gor[g].pretokens)
    /\ \E got \in {CacheGet(cache, gor[g].pretokens[gor[g].pj])} :
           /\ cache' = got.cache
           /\ gor' = [gor EXCEPT ![g] =
                        IF got.ok
                        THEN [@ EXCEPT !.out = @ \o got.value, !.pj = @ + 1]
                        ELSE [@ EXCEPT !.pc = "put"]]
    /\ hist' = Overlap(g)
    /\ UNCHANGED <<text, input, position, tokens, opts, output, decoded, phase, pool,
                   sc, rd, bpe, codec, stream>>

\* PerformBPE after a miss: the computation, then Cache.Put under the lock
CachePutStep(g) ==
    /\ gor[g].pc = "put"
    /\ \E key \in {gor[g].pretokens[gor[g].pj]} : \E result \in {ComputeBPE(processor(cache), key)} :
           /\ cache' = CachePut(cache, key, result)
           /\ gor' = [gor EXCEPT ![g] =
                        [@ EXCEPT !.pc = "get", !.out = @ \o result, !.pj = @ + 1]]
    /\ hist' = Overlap(g)
    /\ UNCHANGED <<text, input, position, tokens, opts, output, decoded, phase, pool,
                   sc, rd, bpe, codec, stream>>

NextConc ==
    \E g \in Goroutines :
        \/ StartEncode(g)
        \/ StartDecode(g)
        \/ FinishEncode(g)
        \/ GetStateMachine(g)
        \/ SpecialPart(g)
        \/ RunStateMachine(g)
        \/ PartDone(g)
        \/ CacheGetStep(g)
        \/ CachePutStep(g)

SpecConc == InitConc /\ [][NextConc]_vars

\* C8: a concurrent Encode or Decode call returns exactly what the same call
\* returns when it runs alone, whatever the interleaving of the goroutines'
\* cache get / compute / put steps.
C8_ConcurrentCallsIndependent ==
    \A g \in Goroutines :
        gor[g].pc = "done" =>
            gor[g].result = IF gor[g].kind = "encode"
                            THEN Encode(NewSimple, gor[g].text, gor[g].opts).ids
                            ELSE Decode(gor[g].ids)

C8_Witness ==
    /\ \A g \in Goroutines : gor[g].pc = "done"
    /\ hist.overlap
    /\ \E g \in Goroutines : gor[g].kind = "encode" /\ Len(gor[g].pretokens) = 2
    /\ \E g, h \in Goroutines :
          /\ g # h
          /\ gor[g].kind = "encode" /\ gor[h].kind = "encode"
          /\ gor[g].text = gor[h].text
    /\ cache.kind = "lru"

----------------------------------------------------------------------------
(* The streaming scanner.  s is the scanner struct; the bytes of a buffer   *)
(* are indexed from 0 as in the code, buf[i] being s[i + 1] here.           *)

\* b&0xC0 == 0x80
IsContinuation(b) == b >= 128 /\ b <= 191

\* the length a lead byte announces: 2 for 110xxxxx, 3 for 1110xxxx, 4 for
\* 11110xxx, 0 otherwise
SeqLen(b) ==
    IF b >= 192 /\ b <= 223 THEN 2
    ELSE IF b >= 224 /\ b <= 239 THEN 3
    ELSE IF b >= 240 /\ b <= 247 THEN 4
    ELSE 0

SetMax(S) == CHOOSE x \in S : \A y \in S : y <= x

\* hasTokenizationBoundary: the buffer ends in whitespace, or does not end
\* in a continuation byte and is longer than half the read buffer
hasTokenizationBoundary(s) ==
    IF Len(s.textBuf) = 0 THEN FALSE
    ELSE LET lastByte == s.textBuf[Len(s.textBuf)]
         IN  IF lastByte \in {32, 10, 9, 13} THEN TRUE
             ELSE IF IsContinuation(lastByte) THEN FALSE
             ELSE Len(s.textBuf) > s.bufSize \div 2

isValidUTF8Ending(buf) ==
    IF Len(buf) = 0 THEN TRUE
    ELSE LET lastByte == buf[Len(buf)]
         IN  IF lastByte < 128 THEN TRUE
             ELSE IF IsContinuation(lastByte) THEN FALSE
             ELSE SeqLen(lastByte) <= 1

\* findLastCompleteUTF8: looks at the last four bytes, from the end, for a
\* byte that is not a continuation byte
findLastCompleteUTF8(buf) ==
    LET n     == Len(buf)
        first == IF n - 4 > 0 THEN n - 4 ELSE 0
        heads == {i \in first..(n - 1) : ~IsContinuation(buf[i + 1])}
    IN  IF heads = {} THEN n
        ELSE LET i == SetMax(heads)
                 b == buf[i + 1]
             IN  IF b < 128 THEN i + 1
                 ELSE IF i + SeqLen(b) <= n THEN i + SeqLen(b)
                 ELSE i

\* findUTF8Boundary: the number of bytes of data to write, at most maxBytes
findUTF8Boundary(data, maxBytes) ==
    IF maxBytes >= Len(data) THEN Len(data)
    ELSE LET starts == {i \in 1..maxBytes :
                           i > maxBytes - 4 /\ i < Len(data) /\ ~IsContinuation(data[i + 1])}
             back   == {i \in 0..(maxBytes - 1) :
                           i >= maxBytes - 4 /\ ~IsContinuation(data[i + 1])}
         IN  IF starts # {} THEN SetMax(starts)
             ELSE IF IsContinuation(data[maxBytes + 1]) /\ back # {} THEN SetMax(back)
             ELSE maxBytes

\* handleBufferLimit: the scanner after the call; toWrite is split into the
\* part written to textBuf and the part kept in pending
handleBufferLimit(s, toWrite) ==
    LET maxWrite  == s.maxBuffer - Len(s.textBuf)
        writeUpTo == findUTF8Boundary(toWrite, maxWrite)
    IN  IF /\ Len(s.textBuf) + Len(toWrite) > s.maxBuffer
           /\ maxWrite > 0 /\ maxWrite < Len(toWrite)
           /\ writeUpTo < Len(toWrite)
        THEN [s EXCEPT !.pending = Slice(toWrite, writeUpTo, Len(toWrite)),
                       !.textBuf = @ \o Slice(toWrite, 0, writeUpTo)]
        ELSE [s EXCEPT !.textBuf = @ \o toWrite]

\* readMoreData, given what r.Read returned: the bytes read and whether the
\* error is io.EOF
readMoreData(s, read, eof) ==
    Bind(IF Len(read) > 0
         THEN handleBufferLimit([s EXCEPT !.pending = <<>>], s.pending \o read)
         ELSE s,
         LAMBDA s1 :
           IF eof
           THEN [s1 EXCEPT !.done = TRUE, !.textBuf = @ \o s1.pending, !.pending = <<>>]
           ELSE s1)

handleMaxBufferReached(s) ==
    LET buf     == s.textBuf
        splitAt == findLastCompleteUTF8(buf)
    IN  IF /\ Len(buf) = s.maxBuffer /\ Len(s.pending) = 0
           /\ Len(buf) > 0 /\ ~isValidUTF8Ending(buf)
           /\ splitAt < Len(buf)
        THEN [s EXCEPT !.pending = Slice(buf, splitAt, Len(buf)),
                       !.textBuf = Slice(buf, 0, splitAt)]
        ELSE s

\* handleEOFTokens: <<the scanner after the call, the value returned>>
handleEOFTokens(s) ==
    IF Len(s.textBuf) # 0 THEN <<s, FALSE>>
    ELSE Bind(GetSpecialTokenID(beginOfTextToken), LAMBDA bos :
         Bind(GetSpecialTokenID(endOfTextToken), LAMBDA eos :
         Bind(IF s.opts.BOS /\ ~s.sentBOS /\ bos[2]
              THEN [s EXCEPT !.tokens = Append(@, bos[1]), !.sentBOS = TRUE]
              ELSE s, LAMBDA s1 :
         Bind(IF s.opts.EOS /\ eos[2]
              THEN [s1 EXCEPT !.tokens = Append(@, eos[1])]
              ELSE s1, LAMBDA s2 :
           IF Len(s2.tokens) > 0 THEN <<[s2 EXCEPT !.tokIndex = 0], TRUE>>
           ELSE <<s2, FALSE>>))))

\* a tokenizeBuffer that asks for BOS on every chunk
tokenizeBufferBOSEveryChunk(s, c) ==
    IF Len(s.textBuf) = 0 THEN [s |-> s, cache |-> c, ok |-> FALSE]
    ELSE Bind(Encode(c, s.textBuf, Options(s.opts.BOS, FALSE)), LAMBDA enc :
         Bind(GetSpecialTokenID(endOfTextToken), LAMBDA eos :
         Bind(IF s.done /\ s.opts.EOS /\ eos[2]
              THEN Append(enc.ids, eos[1]) ELSE enc.ids, LAMBDA toks :
           [s     |-> [s EXCEPT !.sentBOS = @ \/ s.opts.BOS, !.tokens = toks,
                                !.textBuf = <<>>],
            cache |-> enc.cache,
            ok    |-> Len(toks) > 0])))

\* tokenizeBuffer: the scanner and the tokenizer's cache after the call,
\* and the value returned
tokenizeBuffer(s, c) ==
    IF Len(s.textBuf) = 0 THEN [s |-> s, cache |-> c, ok |-> FALSE]
    ELSE LET addBOS == s.opts.BOS /\ ~s.sentBOS
         IN  Bind(Encode(c, s.textBuf, Options(addBOS, FALSE)), LAMBDA enc :
             Bind(GetSpecialTokenID(endOfTextToken), LAMBDA eos :
             Bind(IF s.done /\ s.opts.EOS /\ eos[2]
                  THEN Append(enc.ids, eos[1]) ELSE enc.ids, LAMBDA toks :
               [s     |-> [s EXCEPT !.sentBOS = @ \/ addBOS, !.tokens = toks,
                                    !.textBuf = <<>>],
                cache |-> enc.cache,
                ok    |-> Len(toks) > 0])))

\* Token(): the current token ID
Token(s) ==
    IF s.tokIndex > 0 /\ s.tokIndex <= Len(s.tokens) THEN s.tokens[s.tokIndex] ELSE 0

----------------------------------------------------------------------------
(* A consumer calling Scan and Token on a scanner over a reader that        *)
(* delivers its data in reads of any size (SpecScan).  A Scan call that     *)
(* has to read goes through the loop of readAndAccumulateText one read at   *)
(* a time.                                                                  *)

\* The pieces the reader's data is built from: a, space, e-acute (two
\* bytes), the euro sign (three bytes).
ScanPieces == { <<97>>, <<32>>, <<195, 169>>, <<226, 130, 172>> }

ScanInputs == {Concat(ps) : ps \in SeqsUpTo(ScanPieces, MaxScanPieces)}

\* s.err: nil, or the *ScanError Scan builds around the error of the reader
NilError == [nil |-> TRUE]

ScanError(offset, txt, err) == [nil |-> FALSE, Offset |-> offset, Text |-> txt, Err |-> err]

\* Err(): s.err, which is never io.EOF itself (readMoreData turns io.EOF
\* into nil and Scan wraps every other error)
Err(s) == IF ~s.err.nil /\ s.err.Err = "EOF" THEN NilError ELSE s.err

\* Text(): the field lastText
Text(s) == s.lastText

\* a reader that never fails before the end of its data
Reader(data) == [data |-> data, off |-> 0, err |-> "none", errAt |-> 0]

\* a reader whose Read returns an error that is not io.EOF once errAt bytes
\* are delivered, that time only (err = "once") or from then on ("always")
FailingReader(data, err, errAt) == [data |-> data, off |-> 0, err |-> err, errAt |-> errAt]

\* NewWithOptions(t, r, WithBufferSize(bufSize), WithMaxBuffer(maxBuffer),
\* WithEncodeOptions(o))
NewWithOptions(bufSize, maxBuffer, o) ==
    [pc |-> "idle", textBuf |-> <<>>, tokens |-> <<>>, tokIndex |-> 0,
     lastText |-> <<>>, pending |-> <<>>, err |-> NilError, done |-> FALSE,
     sentBOS |-> FALSE, opts |-> o, bufSize |-> bufSize, maxBuffer |-> maxBuffer]

InitScan ==
    /\ rd \in {Reader(d) : d \in ScanInputs}
    /\ sc \in {NewWithOptions(b, m, o) :
                  b \in 1..MaxBufSize, m \in 1..MaxBufferLimit,
                  o \in {Options(FALSE, FALSE), Options(TRUE, TRUE)}}
    /\ cache = NewSimple
    /\ hist = [chunks |-> <<>>, emitted |-> <<>>, ended |-> FALSE] /\ bpe = NoCall /\ codec = NoCall /\ stream = NoCall
    /\ phase = "scanning"
    /\ text = <<>> /\ opts = NilOptions /\ output = <<>> /\ decoded = <<>>
    /\ input = <<>> /\ position = 0 /\ tokens = <<>>
    /\ gor = <<>> /\ pool = <<>>

\* Scan() with a buffered token left: it becomes the current token
ScanBuffered ==
    /\ sc.pc = "idle" /\ sc.err.nil
    /\ sc.tokIndex < Len(sc.tokens)
    /\ sc' = [sc EXCEPT !.tokIndex = @ + 1]
    /\ hist' = [hist EXCEPT !.emitted = Append(@, Token(sc'))]
    /\ UNCHANGED <<text, input, position, tokens, opts, cache, output, decoded, phase, gor,
                   pool, rd, bpe, codec, stream>>

\* Scan() after an error, or at the end of the input with nothing left:
\* it returns false
ScanFalse ==
    /\ sc.pc = "idle"
    /\ \/ ~sc.err.nil
       \/ /\ sc.tokIndex >= Len(sc.tokens)
          /\ sc.done /\ Len(sc.textBuf) = 0
    /\ hist' = [hist EXCEPT !.ended = TRUE]
    /\ UNCHANGED <<text, input, position, tokens, opts, cache, output, decoded, phase, gor,
                   pool, sc, rd, bpe, codec, stream>>

\* Scan() that has to read: the token buffer is emptied
ScanStart ==
    /\ sc.pc = "idle" /\ sc.err.nil
    /\ sc.tokIndex >= Len(sc.tokens)
    /\ ~(sc.done /\ Len(sc.textBuf) = 0)
    /\ sc' = [sc EXCEPT !.pc = "reading", !.tokens = <<>>, !.tokIndex = 0]
    /\ UNCHANGED <<text, input, position, tokens, opts, cache, output, decoded, phase, gor,
                   pool, rd, hist, bpe, codec, stream>>

\* the rest of Scan once the read loop is left without an error, from the
\* scanner s: tokenizeBuffer and the return
ScanReturn(s) ==
    \E chunk \in {s.textBuf}, tb \in {tokenizeBuffer(s, cache)} :
        /\ cache' = tb.cache
        /\ IF tb.ok \/ Len(tb.s.tokens) > 0
           THEN /\ sc' = [tb.s EXCEPT !.pc = "idle", !.tokIndex = 1]
                /\ hist' = [hist EXCEPT
                              !.chunks = IF chunk = <<>> THEN @ ELSE Append(@, chunk),
                              !.emitted = Append(@, Token(sc'))]
           ELSE /\ sc' = [tb.s EXCEPT !.pc = "idle"]
                /\ hist' = [hist EXCEPT
                              !.chunks = IF chunk = <<>> THEN @ ELSE Append(@, chunk),
                              !.ended = TRUE]

\* one iteration of the loop of readAndAccumulateText: r.Read returns n
\* bytes, with io.EOF when no byte is left and possibly with the last bytes
ReadStep ==
    /\ sc.pc = "reading"
    /\ \E n \in 0..sc.bufSize, eof \in BOOLEAN :
          /\ n <= Len(rd.data) - rd.off
          /\ (n = 0) => eof
          /\ eof => rd.off + n = Len(rd.data)
          /\ rd.err # "none" => (~eof /\ rd.off + n <= rd.errAt)
          /\ rd' = [rd EXCEPT !.off = @ + n]
          /\ \E s1 \in {readMoreData(sc, Slice(rd.data, rd.off, rd.off + n), eof)} :
                IF \/ Len(s1.textBuf) >= s1.maxBuffer
                   \/ s1.done
                   \/ hasTokenizationBoundary(s1)
                THEN ScanReturn(IF Len(s1.textBuf) >= s1.maxBuffer
                                THEN handleMaxBufferReached(s1)
                                ELSE IF s1.done /\ Len(s1.textBuf) = 0
                                THEN handleEOFTokens(s1)[1]
                                ELSE s1)
                ELSE /\ sc' = s1
                     /\ UNCHANGED <<cache, hist>>
    /\ UNCHANGED <<text, input, position, tokens, opts, output, decoded, phase, gor, pool, bpe, codec, stream>>

NextScan == ScanBuffered \/ ScanFalse \/ ScanStart \/ ReadStep

SpecScan == InitScan /\ [][NextScan]_vars

----------------------------------------------------------------------------
(* The scanner over a reader that fails (SpecScanErr).                      *)

ErrInputs == {Concat(ps) : ps \in SeqsUpTo(ScanPieces, MaxErrPieces)}

InitScanErr ==
    /\ rd \in {Reader(d) : d \in ErrInputs}
              \cup {FailingReader(d, e, k) :
                       d \in ErrInputs, e \in {"once", "always"}, k \in 0..MaxErrPieces}
    /\ rd.errAt <= Len(rd.data)
    /\ sc \in {NewWithOptions(b, m, Options(TRUE, TRUE)) :
                  b \in 1..MaxBufSize, m \in 1..MaxBufferLimit}
    /\ cache = NewSimple
    /\ hist = [chunks |-> <<>>, emitted |-> <<>>, ended |-> FALSE, srcErrs |-> 0] /\ bpe = NoCall /\ codec = NoCall /\ stream = NoCall
    /\ phase = "scanning"
    /\ text = <<>> /\ opts = NilOptions /\ output = <<>> /\ decoded = <<>>
    /\ input = <<>> /\ position = 0 /\ tokens = <<>>
    /\ gor = <<>> /\ pool = <<>>

\* one iteration of the loop of readAndAccumulateText in which r.Read
\* returns n bytes and an error that is not io.EOF, and the rest of Scan:
\* the check of the buffer limit comes before the check of the error
ReadError ==
    /\ sc.pc = "reading"
    /\ rd.err # "none"
    /\ \E n \in 0..sc.bufSize :
          /\ rd.off + n = rd.errAt
          /\ rd' = [rd EXCEPT !.off = @ + n,
                              !.err = IF @ = "once" THEN "none" ELSE @]
          /\ \E s1 \in {readMoreData(sc, Slice(rd.data, rd.off, rd.off + n), FALSE)},
                h1 \in {[hist EXCEPT !.srcErrs = @ + 1]} :
                IF Len(s1.textBuf) >= s1.maxBuffer
                THEN \E chunk \in {handleMaxBufferReached(s1).textBuf},
                        tb \in {tokenizeBuffer(handleMaxBufferReached(s1), cache)} :
                        /\ cache' = tb.cache
                        /\ IF tb.ok \/ Len(tb.s.tokens) > 0
                           THEN /\ sc' = [tb.s EXCEPT !.pc = "idle", !.tokIndex = 1]
                                /\ hist' = [h1 EXCEPT
                                              !.chunks = IF chunk = <<>> THEN @
                                                         ELSE Append(@, chunk),
                                              !.emitted = Append(@, Token(sc'))]
                           ELSE /\ sc' = [tb.s EXCEPT !.pc = "idle"]
                                /\ hist' = [h1 EXCEPT
                                              !.chunks = IF chunk = <<>> THEN @
                                                         ELSE Append(@, chunk),
                                              !.ended = TRUE]
                ELSE /\ sc' = [s1 EXCEPT !.pc = "idle",
                                         !.err = ScanError(Len(s1.textBuf), s1.textBuf,
                                                           "read error")]
                     /\ hist' = [h1 EXCEPT !.ended = TRUE]
                     /\ UNCHANGED cache
    /\ UNCHANGED <<text, input, position, tokens, opts, output, decoded, phase, gor, pool, bpe, codec, stream>>

NextScanErr == ScanBuffered \/ ScanFalse \/ ScanStart \/ ReadStep \/ ReadError

SpecScanErr == InitScanErr /\ [][NextScanErr]_vars

----------------------------------------------------------------------------
(* The BPE processor on its own: one Processor over a small loaded          *)
(* vocabulary and merge list, and PerformBPE calls on it, the merge loop    *)
(* one iteration at a time.                                                 *)

\* the bytes the pre-tokens are spelled with: a and the space, whose symbol
\* takes two bytes
BPEPieces == { <<97>>, <<32>> }

\* the pre-tokens: every string up to MaxBPELen symbols, the empty one
\* included, and the runs of a up to MaxRunLen, where every adjacent pair
\* is a candidate of one merge rule
BPEPretokens ==
    {EncodeBytes(Concat(ps)) : ps \in SeqsUpTo(BPEPieces, MaxBPELen)}
    \cup {[i \in 1..n |-> 97] : n \in 1..MaxRunLen}

\* vocabularies as the loader returns them, ID 0 first: a, the space
\* symbol, aa; the second one also has the strings of the other merges
BPEVocabularies ==
    { << <<97>>, <<196, 160>>, <<97, 97>> >>,
      << <<97>>, <<196, 160>>, <<97, 97>>, <<196, 160, 97>>, <<97, 97, 196, 160>>,
         <<97, 97, 97, 97>> >> }

\* merge lists as pairs of IDs, in priority order; ID 9 is out of range
BPEMergeLists ==
    { <<>>,
      << <<0, 0>>, <<1, 0>> >>,
      << <<1, 0>>, <<0, 0>>, <<2, 2>>, <<9, 0>>, <<2, 1>> >> }

\* the tables New and decompressMerges build from a vocabulary and a merge
\* list (the special tokens, which no pre-token of the model spells, left out)
LoadedProcessor(vocabulary, mergeList, c) ==
    LET table  == [id \in 0..(Len(vocabulary) - 1) |-> vocabulary[id + 1]]
        n      == Len(vocabulary)
        lookup == [s \in {vocabulary[i] : i \in 1..n} |->
                     CHOOSE id \in 0..(n - 1) :
                        table[id] = s /\ \A other \in 0..(n - 1) : table[other] = s => other <= id]
        ok     == {k \in 1..Len(mergeList) : mergeList[k][1] < n /\ mergeList[k][2] < n}
        ident(k) == table[mergeList[k][1]] \o <<32>> \o table[mergeList[k][2]]
        rules  == [m \in {ident(k) : k \in ok} |->
                     CHOOSE k \in ok : ident(k) = m /\ \A j \in ok : ident(j) = m => j <= k]
    IN  Processor(table, n, lookup, rules, c)

\* no PerformBPE call in progress
BPEIdle(p, calls, pretoken, result, looped) ==
    [p |-> p, pc |-> "idle", calls |-> calls, pretoken |-> pretoken, result |-> result,
     looped |-> looped, hit |-> FALSE,
     st |-> [nodes |-> <<>>, first |-> 0, pq |-> {}], merged |-> 0, dropped |-> 0,
     rivals |-> {}, merges |-> 0]

InitBPE ==
    /\ bpe \in {BPEIdle(LoadedProcessor(v, m, c), 0, <<>>, <<>>, FALSE) :
                   v \in BPEVocabularies, m \in BPEMergeLists, c \in {NewSimple, NewLRU(1)}}
    /\ text = <<>> /\ input = <<>> /\ position = 0 /\ tokens = <<>>
    /\ opts = NilOptions /\ cache = NewSimple /\ output = <<>> /\ decoded = <<>>
    /\ phase = "idle" /\ gor = <<>> /\ pool = <<>>
    /\ sc = NoCall /\ rd = NoCall /\ hist = NoCall /\ codec = NoCall /\ stream = NoCall

\* PerformBPE up to the merge loop: the cache hit, the direct vocabulary
\* match, the initial tokens, the list and the queue
BPEStart ==
    /\ bpe.pc = "idle"
    /\ bpe.calls < MaxBPECalls
    /\ \E pretoken \in BPEPretokens : \E got \in {CacheGet(bpe.p.Cache, pretoken)} :
         LET p == [bpe.p EXCEPT !.Cache = got.cache]
             returned(result, c) ==
                 [BPEIdle([p EXCEPT !.Cache = c], bpe.calls + 1, pretoken, result, FALSE)
                     EXCEPT !.hit = got.ok]
         IN  IF got.ok THEN bpe' = returned(got.value, got.cache)
             ELSE \E id \in {tryDirectMatch(p, pretoken)} :
                  IF id[2] THEN bpe' = returned(<<id[1]>>, CachePut(got.cache, pretoken, <<id[1]>>))
                  ELSE \E tokenIDs \in {pretokenToIDs(p, pretoken)} :
                       IF Len(tokenIDs) <= 1
                       THEN bpe' = returned(tokenIDs, CachePut(got.cache, pretoken, tokenIDs))
                       ELSE bpe' = [bpe EXCEPT
                                      !.p = p, !.pc = "loop", !.calls = @ + 1,
                                      !.pretoken = pretoken, !.result = <<>>,
                                      !.looped = FALSE, !.hit = FALSE, !.merged = 0,
                                      !.dropped = 0, !.rivals = {}, !.merges = 0,
                                      !.st = buildMergeList(p, tokenIDs, Len(pretoken))]
    /\ UNCHANGED <<text, input, position, tokens, opts, cache, output, decoded, phase, gor,
                   pool, sc, rd, hist, codec, stream>>

\* the rule priority of a queued node: MergePrio without the position bias
IntegerPrio(st, node, pretokenLen) == st.nodes[node].MergePrio \div pretokenLen

\* the queued nodes, other than node, that are valid candidates of the same
\* rule priority
Rivals(st, node, pretokenLen) ==
    {y \in st.pq \ {node} :
        /\ isValidMerge(st, y)
        /\ IntegerPrio(st, y, pretokenLen) = IntegerPrio(st, node, pretokenLen)}

\* one iteration of the merge loop
BPEMerge ==
    /\ bpe.pc = "loop"
    /\ bpe.st.pq # {}
    /\ \E leftOfMerge \in {PopMin(bpe.st)} :
         bpe' = [bpe EXCEPT
                   !.looped = TRUE,
                   !.merged = IF isValidMerge(bpe.st, leftOfMerge) THEN leftOfMerge ELSE 0,
                   !.rivals = IF isValidMerge(bpe.st, leftOfMerge)
                              THEN Rivals(bpe.st, leftOfMerge, Len(bpe.pretoken))
                              ELSE {},
                   !.dropped = IF /\ isValidMerge(bpe.st, leftOfMerge)
                                  /\ ~ProcessorLookup(bpe.p,
                                          bpe.st.nodes[leftOfMerge].MergeToString)[2]
                               THEN @ + 1 ELSE @,
                   !.merges = IF /\ isValidMerge(bpe.st, leftOfMerge)
                                 /\ ProcessorLookup(bpe.p,
                                         bpe.st.nodes[leftOfMerge].MergeToString)[2]
                              THEN @ + 1 ELSE @,
                   !.st = MergeStep(bpe.p, bpe.st, Len(bpe.pretoken))]
    /\ UNCHANGED <<text, input, position, tokens, opts, cache, output, decoded, phase, gor,
                   pool, sc, rd, hist, codec, stream>>

\* the queue is empty: collect the IDs, store them, return
BPEReturn ==
    /\ bpe.pc = "loop"
    /\ bpe.st.pq = {}
    /\ \E result \in {CollectIDs(bpe.st, bpe.st.first)} :
         bpe' = [bpe EXCEPT
                   !.pc = "idle", !.result = result,
                   !.p.Cache = CachePut(bpe.p.Cache, bpe.pretoken, result)]
    /\ UNCHANGED <<text, input, position, tokens, opts, cache, output, decoded, phase, gor,
                   pool, sc, rd, hist, codec, stream>>

NextBPE == BPEStart \/ BPEMerge \/ BPEReturn

SpecBPE == InitBPE /\ [][NextBPE]_vars

\* PerformBPE is sequential code: a call in its loop makes its next
\* iteration, and returns once the queue is empty
SpecBPEFair == SpecBPE /\ WF_vars(BPEMerge \/ BPEReturn)

----------------------------------------------------------------------------
(* The byte codec on its own: EncodeBytes on a byte sequence, then          *)
(* DecodeTokenBytes on the string it returned.                              *)

\* the bytes at the ends of the ranges of CreateByteMappings, and around them
CodecBytes == {0, 32, 33, 97, 126, 127, 160, 161, 172, 173, 174, 255}

\* every single byte, and the sequences over CodecBytes
CodecInputs == {<<b>> : b \in 0..255} \cup SeqsUpTo(CodecBytes, MaxCodecLen)

InitCodec ==
    /\ codec \in {[pc |-> "start", data |-> d, token |-> <<>>, bytes |-> <<>>] :
                     d \in CodecInputs}
    /\ text = <<>> /\ input = <<>> /\ position = 0 /\ tokens = <<>>
    /\ opts = NilOptions /\ cache = NewSimple /\ output = <<>> /\ decoded = <<>>
    /\ phase = "idle" /\ gor = <<>> /\ pool = <<>>
    /\ sc = NoCall /\ rd = NoCall /\ hist = NoCall /\ bpe = NoCall /\ stream = NoCall

EncodeBytesCall ==
    /\ codec.pc = "start"
    /\ codec' = [codec EXCEPT !.pc = "encoded", !.token = EncodeBytes(codec.data)]
    /\ UNCHANGED <<text, input, position, tokens, opts, cache, output, decoded, phase, gor,
                   pool, sc, rd, hist, bpe, stream>>

DecodeTokenBytesCall ==
    /\ codec.pc = "encoded"
    /\ codec' = [codec EXCEPT !.pc = "decoded", !.bytes = DecodeTokenBytes(codec.token)]
    /\ UNCHANGED <<text, input, position, tokens, opts, cache, output, decoded, phase, gor,
                   pool, sc, rd, hist, bpe, stream>>

NextCodec == EncodeBytesCall \/ DecodeTokenBytesCall

SpecCodec == InitCodec /\ [][NextCodec]_vars

----------------------------------------------------------------------------
(* An LRU cache on its own: any sequence of Put and Get calls.              *)

\* one key more than the largest capacity
LRUKeys == {<<96 + i>> : i \in 1..(MaxLRUCapacity + 1)}

LRUValues == {<<0>>, <<0, 1>>}

\* a sequence of keys without the keys of a set
WithoutKeys(keys, gone) == SelectSeq(keys, LAMBDA k : k \notin gone)

\* the history of the calls on one cache: the last call (op, key, whether
\* the key was found, the value a Get returned, the size before the call),
\* the keys ever put by most recent use (the inserting Put, an updating Put
\* or a Get hit; most recent first), the value of the last Put of each key,
\* the keys held by insertion (newest first), and for the last call the key
\* it removed (victim) and the held key that had been inserted first (fifo)
InitLRU ==
    /\ cache \in {NewSimple} \cup {NewLRU(k) : k \in 0..MaxLRUCapacity}
    /\ hist = [op |-> "New", key |-> <<>>, ok |-> FALSE, value |-> <<>>, before |-> 0,
               used |-> <<>>, put |-> <<>>, inserted |-> <<>>,
               victim |-> {}, fifo |-> <<>>]
    /\ text = <<>> /\ input = <<>> /\ position = 0 /\ tokens = <<>>
    /\ opts = NilOptions /\ output = <<>> /\ decoded = <<>>
    /\ phase = "idle" /\ gor = <<>> /\ pool = <<>>
    /\ sc = NoCall /\ rd = NoCall /\ bpe = NoCall /\ codec = NoCall /\ stream = NoCall

\* Cache.Put
LRUPut ==
    /\ \E key \in LRUKeys, value \in LRUValues : \E c \in {CachePut(cache, key, value)} :
         /\ cache' = c
         /\ hist' = [op |-> "Put", key |-> key, ok |-> key \in CacheKeys(cache),
                     value |-> <<>>, before |-> Cardinality(CacheKeys(cache)),
                     used |-> <<key>> \o WithoutKeys(hist.used, {key}),
                     put |-> (key :> value) @@ hist.put,
                     inserted |-> IF key \in CacheKeys(cache)
                                  THEN WithoutKeys(hist.inserted,
                                                   CacheKeys(cache) \ CacheKeys(c))
                                  ELSE <<key>> \o WithoutKeys(hist.inserted,
                                                   CacheKeys(cache) \ CacheKeys(c)),
                     victim |-> CacheKeys(cache) \ CacheKeys(c),
                     fifo |-> IF hist.inserted = <<>> THEN <<>>
                              ELSE hist.inserted[Len(hist.inserted)]]
    /\ UNCHANGED <<text, input, position, tokens, opts, output, decoded, phase, gor, pool,
                   sc, rd, bpe, codec, stream>>

\* Cache.Get
LRUGet ==
    /\ \E key \in LRUKeys : \E got \in {CacheGet(cache, key)} :
         /\ cache' = got.cache
         /\ hist' = [hist EXCEPT
                       !.op = "Get", !.key = key, !.ok = got.ok, !.value = got.value,
                       !.before = Cardinality(CacheKeys(cache)),
                       !.used = IF got.ok THEN <<key>> \o WithoutKeys(@, {key}) ELSE @,
                       !.inserted = WithoutKeys(@, CacheKeys(cache) \ CacheKeys(got.cache)),
                       !.victim = CacheKeys(cache) \ CacheKeys(got.cache),
                       !.fifo = IF hist.inserted = <<>> THEN <<>>
                                ELSE hist.inserted[Len(hist.inserted)]]
    /\ UNCHANGED <<text, input, position, tokens, opts, output, decoded, phase, gor, pool,
                   sc, rd, bpe, codec, stream>>

NextLRU == LRUPut \/ LRUGet

SpecLRU == InitLRU /\ [][NextLRU]_vars

----------------------------------------------------------------------------
(* One cache shared by several goroutines, every statement of Get and Put   *)
(* a step of its own.  The cache record carries, besides the list, the key  *)
(* index of LRUCache (items, as the set of its keys) and the mutex: mu is   *)
(* the goroutine that holds the write lock (0: nobody), readers the ones    *)
(* that hold the read lock.  The history applies every call as a whole, at  *)
(* the moment the call gets the lock, to a cache of its own (serial), and   *)
(* keeps whether a call has waited for the lock while another one ran.      *)

SharedKeys == {<<97>>, <<98>>}

SharedValues == {<<0>>, <<1>>}

SharedCache(c) == [kind |-> c.kind, capacity |-> c.capacity, cache |-> c.cache,
                   lru |-> c.lru, items |-> {}, mu |-> 0, readers |-> {}]

IdleCaller == [pc |-> "idle", op |-> "none", key |-> <<>>, value |-> <<>>,
               oldest |-> <<>>,
               ret |-> [value |-> <<>>, ok |-> FALSE],
               expect |-> [value |-> <<>>, ok |-> FALSE]]

InitShared ==
    /\ cache \in {SharedCache(NewSimple), SharedCache(NewLRU(0)), SharedCache(NewLRU(1))}
    /\ gor = [g \in Goroutines |-> IdleCaller]
    /\ hist = [calls |-> 0, puts |-> {}, waited |-> FALSE,
               serial |-> [kind |-> cache.kind, capacity |-> cache.capacity,
                           cache |-> <<>>, lru |-> <<>>]]
    /\ text = <<>> /\ input = <<>> /\ position = 0 /\ tokens = <<>>
    /\ opts = NilOptions /\ output = <<>> /\ decoded = <<>>
    /\ phase = "idle" /\ pool = <<>>
    /\ sc = NoCall /\ rd = NoCall /\ bpe = NoCall /\ codec = NoCall /\ stream = NoCall

\* a goroutine calls Get or Put
SharedCall(g) ==
    /\ gor[g].pc = "idle"
    /\ hist.calls < MaxCalls
    /\ \E op \in {"Get", "Put"}, key \in SharedKeys, value \in SharedValues :
         /\ op = "Get" => value = <<0>>
         /\ gor' = [gor EXCEPT ![g] = [IdleCaller EXCEPT
                        !.pc = "lock", !.op = op, !.key = key,
                        !.value = IF op = "Put" THEN value ELSE <<>>]]
    /\ hist' = [hist EXCEPT !.calls = @ + 1]
    /\ UNCHANGED <<text, input, position, tokens, opts, cache, output, decoded, phase, pool,
                   sc, rd, bpe, codec, stream>>

\* whether the call takes the read lock: only SimpleCache.Get does
TakesRLock(c, call) == c.kind = "simple" /\ call.op = "Get"

\* a mutex that lets everybody in
MutexFreeAlways(c, call) == TRUE

\* sync.RWMutex: Lock waits for the writer and the readers, RLock for the writer
MutexFree(c, call) ==
    IF TakesRLock(c, call) THEN c.mu = 0 ELSE c.mu = 0 /\ c.readers = {}

\* c.mu.Lock() / c.mu.RLock()
SharedLock(g) ==
    /\ gor[g].pc = "lock"
    /\ MutexFree(cache, gor[g])
    /\ cache' = IF TakesRLock(cache, gor[g])
                THEN [cache EXCEPT !.readers = @ \cup {g}]
                ELSE [cache EXCEPT !.mu = g]
    /\ \E got \in {CacheGet(hist.serial, gor[g].key)} :
         /\ gor' = [gor EXCEPT ![g].pc = "lookup",
                               ![g].expect = IF gor[g].op = "Get"
                                             THEN [value |-> got.value, ok |-> got.ok]
                                             ELSE @]
         /\ hist' = [hist EXCEPT
                       !.serial = IF gor[g].op = "Get" THEN got.cache
                                  ELSE CachePut(@, gor[g].key, gor[g].value),
                       !.puts = IF gor[g].op = "Put" THEN @ \cup {gor[g].key} ELSE @]
    /\ UNCHANGED <<text, input, position, tokens, opts, output, decoded, phase, pool,
                   sc, rd, bpe, codec, stream>>

\* one statement of Get or Put between the lock and the unlock
SharedStep(g) ==
    /\ gor[g].pc \in {"lookup", "push", "index", "evict", "delete"}
    /\ LET call == gor[g]
           i    == LRUIndex(cache, call.key)
       IN  IF cache.kind = "simple"
           THEN \* val, ok := c.cache[key]  /  c.cache[key] = value
                IF call.op = "Get"
                THEN /\ gor' = [gor EXCEPT ![g].pc = "unlock",
                                  ![g].ret = IF call.key \in DOMAIN cache.cache
                                             THEN [value |-> cache.cache[call.key], ok |-> TRUE]
                                             ELSE [value |-> <<>>, ok |-> FALSE]]
                     /\ UNCHANGED cache
                ELSE /\ gor' = [gor EXCEPT ![g].pc = "unlock"]
                     /\ cache' = [cache EXCEPT !.cache = (call.key :> call.value) @@ @]
           ELSE CASE call.pc = "lookup" /\ call.key \in cache.items ->
                     \* elem found: MoveToFront (nothing when the element is
                     \* no longer in the list), then the value
                     /\ cache' = IF i = 0 THEN cache
                                 ELSE [cache EXCEPT !.lru =
                                         <<[key |-> call.key,
                                            value |-> IF call.op = "Put" THEN call.value
                                                      ELSE cache.lru[i].value]>>
                                         \o SubSeq(cache.lru, 1, i - 1)
                                         \o SubSeq(cache.lru, i + 1, Len(cache.lru))]
                     /\ gor' = [gor EXCEPT ![g].pc = "unlock",
                                  ![g].ret = IF call.op = "Get" /\ i # 0
                                             THEN [value |-> cache.lru[i].value, ok |-> TRUE]
                                             ELSE IF call.op = "Get"
                                             THEN [value |-> <<>>, ok |-> TRUE]
                                             ELSE @]
                  [] call.pc = "lookup" /\ call.key \notin cache.items ->
                     /\ gor' = [gor EXCEPT ![g].pc = IF call.op = "Get" THEN "unlock"
                                                     ELSE "push"]
                     /\ UNCHANGED cache
                  [] call.pc = "push" ->
                     \* elem := c.lru.PushFront(entry)
                     /\ cache' = [cache EXCEPT !.lru =
                                    <<[key |-> call.key, value |-> call.value]>> \o @]
                     /\ gor' = [gor EXCEPT ![g].pc = "index"]
                  [] call.pc = "index" ->
                     \* c.items[key] = elem
                     /\ cache' = [cache EXCEPT !.items = @ \cup {call.key}]
                     /\ gor' = [gor EXCEPT ![g].pc = "evict"]
                  [] call.pc = "evict" ->
                     \* over capacity: c.lru.Remove(c.lru.Back())
                     IF cache.capacity > 0 /\ Len(cache.lru) > cache.capacity
                     THEN /\ cache' = [cache EXCEPT !.lru = SubSeq(@, 1, Len(@) - 1)]
                          /\ gor' = [gor EXCEPT ![g].pc = "delete",
                                                ![g].oldest = cache.lru[Len(cache.lru)].key]
                     ELSE /\ gor' = [gor EXCEPT ![g].pc = "unlock"]
                          /\ UNCHANGED cache
                  [] call.pc = "delete" ->
                     \* delete(c.items, oldest.key)
                     /\ cache' = [cache EXCEPT !.items = @ \ {call.oldest}]
                     /\ gor' = [gor EXCEPT ![g].pc = "unlock"]
    /\ hist' = [hist EXCEPT !.waited = @ \/ \E other \in Goroutines : gor[other].pc = "lock"]
    /\ UNCHANGED <<text, input, position, tokens, opts, output, decoded, phase, pool,
                   sc, rd, bpe, codec, stream>>

\* the deferred c.mu.Unlock() / c.mu.RUnlock(), and the return
SharedUnlock(g) ==
    /\ gor[g].pc = "unlock"
    /\ cache' = IF TakesRLock(cache, gor[g])
                THEN [cache EXCEPT !.readers = @ \ {g}]
                ELSE [cache EXCEPT !.mu = IF @ = g THEN 0 ELSE @]
    /\ gor' = [gor EXCEPT ![g].pc = "idle"]
    /\ UNCHANGED <<text, input, position, tokens, opts, output, decoded, phase, pool,
                   sc, rd, hist, bpe, codec, stream>>

NextShared ==
    \E g \in Goroutines :
        SharedCall(g) \/ SharedLock(g) \/ SharedStep(g) \/ SharedUnlock(g)

SpecShared == InitShared /\ [][NextShared]_vars

----------------------------------------------------------------------------
(* Special-token lookups on their own.                                      *)

\* "<|", "|>", ">", "a", "eot_id", "reserved_special_token_24", "7", "8"
SpecialQueryPieces ==
    { <<60, 124>>, <<124, 62>>, <<62>>, <<97>>,
      <<101, 111, 116, 95, 105, 100>>,
      <<114, 101, 115, 101, 114, 118, 101, 100, 95, 115, 112, 101, 99, 105, 97, 108, 95,
        116, 111, 107, 101, 110, 95, 50, 52>>,
      <<55>>, <<56>> }

SpecialQueries == {Concat(ps) : ps \in SeqsUpTo(SpecialQueryPieces, MaxSpecialPieces)}

InitSpecial ==
    /\ text \in SpecialQueries
    /\ phase = "start"
    /\ hist = [id |-> 0, err |-> "nil"]
    /\ input = <<>> /\ position = 0 /\ tokens = <<>>
    /\ opts = NilOptions /\ cache = NewSimple /\ output = <<>> /\ decoded = <<>>
    /\ gor = <<>> /\ pool = <<>>
    /\ sc = NoCall /\ rd = NoCall /\ bpe = NoCall /\ codec = NoCall /\ stream = NoCall

\* id, err := t.GetSpecialTokenID(text)
GetSpecialTokenIDCall ==
    /\ phase = "start"
    /\ \E r \in {GetSpecialTokenID(text)} : hist' = [id |-> r[1], err |-> r[3]]
    /\ phase' = "returned"
    /\ UNCHANGED <<text, input, position, tokens, opts, cache, output, decoded, gor, pool,
                   sc, rd, bpe, codec, stream>>

NextSpecial == GetSpecialTokenIDCall

SpecSpecial == InitSpecial /\ [][NextSpecial]_vars

----------------------------------------------------------------------------
(* Decode on ID lists that no Encode call returned.                         *)

\* negative IDs, IDs of byte symbols and of a merged token, the first and
\* the last special token, and IDs from len(t.tokens) on
DecodeIDs == {-128256, -1, 64, 127, 220, 257, 128000, 128255, 128256, 200000}

InitDec ==
    /\ output \in SeqsUpTo(DecodeIDs, MaxDecodeIDs)
    /\ phase = "encoded"
    /\ decoded = <<>>
    /\ text = <<>> /\ input = <<>> /\ position = 0 /\ tokens = <<>>
    /\ opts = NilOptions /\ cache = NewSimple
    /\ gor = <<>> /\ pool = <<>>
    /\ sc = NoCall /\ rd = NoCall /\ hist = NoCall /\ bpe = NoCall /\ codec = NoCall /\ stream = NoCall

NextDec == DecodeCall

SpecDec == InitDec /\ [][NextDec]_vars

----------------------------------------------------------------------------
(* The split of a text by a pattern.                                        *)

\* the second match follows the first in a result of FindAllStringIndex:
\* matches do not overlap, and an empty match neither abuts the match
\* before it nor is abutted by the match after it
MatchFollows(a, b) ==
    /\ a[2] <= b[1]
    /\ (a[1] = a[2] \/ b[1] = b[2]) => a[2] < b[1]

\* the sets of matches some pattern can have in a text of n bytes
MatchSets(n) ==
    { M \in SUBSET {m \in (0..n) \X (0..n) : m[1] <= m[2]} :
        /\ \A a \in M : \A b \in M :
              a = b \/ MatchFollows(a, b) \/ MatchFollows(b, a) }

\* the matches in the order of the text
RECURSIVE MatchList(_)
MatchList(M) ==
    IF M = {} THEN <<>>
    ELSE Bind(CHOOSE m \in M : \A o \in M : o = m \/ MatchFollows(m, o),
              LAMBDA first : <<first>> \o MatchList(M \ {first}))

\* texts of 'a' and '|' for the arbitrary patterns, and texts of these
\* pieces for SpecialTokenRegex
SplitTexts == SeqsUpTo({97, 124}, MaxSplitLen)
SplitPieces ==
    { <<97>>, <<60, 124>>, <<124, 62>>, <<101, 111, 116, 95, 105, 100>>,
      <<60, 124, 101, 111, 116, 95, 105, 100, 124, 62>> }

InitSplit ==
    /\ \/ /\ text \in SplitTexts
          /\ \E M \in MatchSets(Len(text)) :
                hist = [matches |-> MatchList(M), regex |-> "any", result |-> <<>>]
       \/ /\ text \in {Concat(ps) : ps \in SeqsUpTo(SplitPieces, MaxSplitPieces)}
          /\ hist = [matches |-> FindAllStringIndex(text, 0),
                     regex |-> "SpecialTokenRegex", result |-> <<>>]
    /\ phase = "start"
    /\ input = <<>> /\ position = 0 /\ tokens = <<>>
    /\ opts = NilOptions /\ cache = NewSimple
    /\ output = <<>> /\ decoded = <<>>
    /\ gor = <<>> /\ pool = <<>>
    /\ sc = NoCall /\ rd = NoCall /\ bpe = NoCall /\ codec = NoCall /\ stream = NoCall

\* splitBySpecialTokens(text, regex)
SplitCall ==
    /\ phase = "start"
    /\ hist' = [hist EXCEPT !.result = splitBySpecialTokens(text, hist.matches)]
    /\ phase' = "split"
    /\ UNCHANGED <<text, input, position, tokens, opts, cache, output, decoded,
                   gor, pool, sc, rd, bpe, codec, stream>>

NextSplit == SplitCall

SpecSplit == InitSplit /\ [][NextSplit]_vars

----------------------------------------------------------------------------
(* New: the options, the loader, the tables.                                *)

defaultCacheSize == 0

\* a []string that may be nil
NilStrings == [nil |-> TRUE, list |-> <<>>]
Strings(list) == [nil |-> FALSE, list |-> list]

\* the config New starts from, with the error of the option that failed
DefaultConfig == [specialTokens |-> NilStrings, cacheSize |-> defaultCacheSize, err |-> "nil"]

\* the option WithSpecialTokens(tokens) applied to a config: the first token
\* that has not the format or that occurs again later is the error
WithSpecialTokens(cfg, tkns) ==
    LET list    == tkns.list
        bad(i)  == Len(list[i]) < 5 \/ ~IsSpecialToken(list[i])
        dup(i)  == \E j \in (i + 1)..Len(list) : list[i] = list[j]
        failing == {i \in 1..Len(list) : bad(i) \/ dup(i)}
    IN  IF failing = {} THEN [cfg EXCEPT !.specialTokens = tkns]
        ELSE LET i == CHOOSE k \in failing : \A o \in failing : k <= o
             IN  [cfg EXCEPT !.err = IF bad(i) THEN "config special_tokens: validate"
                                     ELSE "config special_tokens: duplicate"]

\* the option WithCacheSize(size) applied to a config
WithCacheSize(cfg, size) ==
    IF size < 0 THEN [cfg EXCEPT !.err = "config cache_size"]
    ELSE [cfg EXCEPT !.cacheSize = size]

\* for _, opt := range opts: New returns at the first option that fails
RECURSIVE ApplyOptions(_, _)
ApplyOptions(cfg, options) ==
    IF options = <<>> \/ cfg.err # "nil" THEN cfg
    ELSE ApplyOptions(IF Head(options).opt = "WithCacheSize"
                      THEN WithCacheSize(cfg, Head(options).size)
                      ELSE WithSpecialTokens(cfg, Head(options).tokens),
                      Tail(options))

NilTokenizer ==
    [nil |-> TRUE, cacheSize |-> 0, cache |-> NewSimple, tokens |-> <<>>,
     tokenLookup |-> <<>>, mergeRules |-> <<>>]

\* New(opts...) with the data loader: the tokenizer, nil on failure, and the
\* error
New(options, loader) ==
    LET cfg == ApplyOptions(DefaultConfig, options)
    IN  IF cfg.err # "nil" THEN [t |-> NilTokenizer, err |-> cfg.err]
        ELSE IF loader.vocabErr THEN [t |-> NilTokenizer, err |-> "load vocabulary"]
        ELSE LET specialTokens == IF cfg.specialTokens.nil THEN DefaultSpecialTokens
                                  ELSE cfg.specialTokens.list
                 tkns   == loader.vocab \o specialTokens
                 lookup == [s \in {tkns[i] : i \in 1..Len(tkns)} |->
                              CHOOSE id \in 0..(Len(tkns) - 1) :
                                 /\ tkns[id + 1] = s
                                 /\ \A other \in 0..(Len(tkns) - 1) :
                                       tkns[other + 1] = s => other <= id]
             IN  IF loader.mergesErr THEN [t |-> NilTokenizer, err |-> "load merges"]
                 ELSE [t |-> [nil |-> FALSE, cacheSize |-> cfg.cacheSize,
                              cache |-> IF cfg.cacheSize = 0 THEN NewSimple
                                        ELSE NewLRU(cfg.cacheSize),
                              tokens |-> tkns, tokenLookup |-> lookup,
                              mergeRules |-> loader.merges],
                       err |-> "nil"]

\* the Processor that performBPE builds from a tokenizer New returned
ProcessorOf(t) ==
    Processor([id \in 0..(Len(t.tokens) - 1) |-> t.tokens[id + 1]], Len(t.tokens),
              t.tokenLookup, t.mergeRules, t.cache)

\* the strings of the model's vocabularies and special-token lists: a,
\* <|x|> and <|>
CustomSpecialX == <<60, 124, 120, 124, 62>>

NewOptions ==
    {[opt |-> "WithCacheSize", size |-> s, tokens |-> NilStrings] : s \in {-1, 0, 1}}
    \cup {[opt |-> "WithSpecialTokens", size |-> 0, tokens |-> l] :
             l \in {NilStrings, Strings(<<CustomSpecialX>>),
                    Strings(<<CustomSpecialX, CustomSpecialX>>),
                    Strings(<< <<60, 124, 62>> >>), Strings(<< <<97>> >>)}}

\* what a VocabularyDataLoader returns: a vocabulary or an error, a merge
\* map or an error
NewLoaders ==
    {[vocabErr |-> FALSE, vocab |-> v, mergesErr |-> FALSE, merges |-> m] :
        v \in SeqsUpTo({<<97>>, CustomSpecialX}, MaxVocabLen),
        m \in {<<>>, (<<97, 32, 97>> :> 1)}}
    \cup {[vocabErr |-> TRUE, vocab |-> <<>>, mergesErr |-> FALSE, merges |-> <<>>],
          [vocabErr |-> FALSE, vocab |-> << <<97>> >>, mergesErr |-> TRUE, merges |-> <<>>]}

InitNew ==
    /\ \E options \in SeqsUpTo(NewOptions, MaxOptions) : \E loader \in NewLoaders :
          hist = [options |-> options, loader |-> loader, t |-> NilTokenizer,
                  err |-> "nil", calls |-> 0, hits |-> 0, pretoken |-> <<>>,
                  result |-> <<>>]
    /\ phase = "start"
    /\ text = <<>> /\ input = <<>> /\ position = 0 /\ tokens = <<>>
    /\ opts = NilOptions /\ cache = NewSimple
    /\ output = <<>> /\ decoded = <<>>
    /\ gor = <<>> /\ pool = <<>>
    /\ sc = NoCall /\ rd = NoCall /\ bpe = NoCall /\ codec = NoCall /\ stream = NoCall

\* t, err := New(opts...)
NewCall ==
    /\ phase = "start"
    /\ \E r \in {New(hist.options, hist.loader)} :
          /\ hist' = [hist EXCEPT !.t = r.t, !.err = r.err]
          /\ phase' = IF r.err = "nil" THEN "built" ELSE "failed"
    /\ UNCHANGED <<text, input, position, tokens, opts, cache, output, decoded,
                   gor, pool, sc, rd, bpe, codec, stream>>

\* t.EncodeBPE(pretoken) on the tokenizer New returned
EncodeBPECall ==
    /\ phase = "built"
    /\ hist.calls < MaxNewCalls
    /\ \E pretoken \in {<<97>>, <<97, 97>>} :
       \E got \in {CacheGet(hist.t.cache, pretoken)} :
       \E r \in {PerformBPE(ProcessorOf(hist.t), pretoken)} :
          hist' = [hist EXCEPT !.t.cache = r.cache, !.calls = @ + 1,
                               !.hits = IF got.ok THEN @ + 1 ELSE @,
                               !.pretoken = pretoken, !.result = r.ids]
    /\ UNCHANGED <<text, input, position, tokens, opts, cache, output, decoded,
                   phase, gor, pool, sc, rd, bpe, codec, stream>>

NextNew == NewCall \/ EncodeBPECall

SpecNew == InitNew /\ [][NextNew]_vars

----------------------------------------------------------------------------
(* TokenStream: a goroutine that scans and sends, two channels, a consumer. *)

\* make(chan int, 100) and make(chan error, 1)
tokensBuffer == 100
errcBuffer == 1

\* what the scanner of the stream does: n times Scan returns true, the k-th
\* time with the token k, then Scan returns false and Err() is scanErr
StreamLengths == {0, 2, MaxStreamTokens}
ScanToken(k) == k

\* a select whose default case gives the token up
TokenStreamSelectDrop(s) ==
    IF Len(s.tokens) < tokensBuffer
    THEN [s EXCEPT !.tokens = Append(@, s.token), !.pc = "scan"]
    ELSE [s EXCEPT !.pc = "scan", !.full = TRUE]

\* select { case tokens <- scan.Token(): default: ... }: the send when the
\* buffer has room, the default case when it is full
TokenStreamSelect(s) ==
    IF Len(s.tokens) < tokensBuffer
    THEN [s EXCEPT !.tokens = Append(@, s.token), !.pc = "scan"]
    ELSE [s EXCEPT !.pc = "default", !.full = TRUE]

InitStream ==
    /\ \E n \in StreamLengths : \E e \in {"nil", "read error"} :
          stream = [pc |-> "scan", n |-> n, scanErr |-> e, scanned |-> 0, token |-> 0,
                    tokens |-> <<>>, tokensClosed |-> FALSE,
                    errc |-> <<>>, errcClosed |-> FALSE,
                    received |-> <<>>, sawClosed |-> FALSE,
                    poll |-> "none", errSeen |-> "none", full |-> FALSE]
    /\ phase = "idle"
    /\ text = <<>> /\ input = <<>> /\ position = 0 /\ tokens = <<>>
    /\ opts = NilOptions /\ cache = NewSimple
    /\ output = <<>> /\ decoded = <<>>
    /\ gor = <<>> /\ pool = <<>>
    /\ sc = NoCall /\ rd = NoCall /\ hist = NoCall /\ bpe = NoCall /\ codec = NoCall

StreamOnly ==
    UNCHANGED <<text, input, position, tokens, opts, cache, output, decoded, phase,
                gor, pool, sc, rd, hist, bpe, codec>>

\* for scan.Scan() { ... }
StreamScan ==
    /\ stream.pc = "scan"
    /\ stream' = IF stream.scanned < stream.n
                 THEN [stream EXCEPT !.scanned = @ + 1, !.token = ScanToken(@ + 1),
                                     !.pc = "select"]
                 ELSE [stream EXCEPT !.pc = "err"]
    /\ StreamOnly

StreamSelect ==
    /\ stream.pc = "select"
    /\ stream' = TokenStreamSelect(stream)
    /\ StreamOnly

\* default: tokens <- scan.Token(), which waits for room in the buffer
StreamSend ==
    /\ stream.pc = "default"
    /\ Len(stream.tokens) < tokensBuffer
    /\ stream' = [stream EXCEPT !.tokens = Append(@, stream.token), !.pc = "scan"]
    /\ StreamOnly

\* if err := scan.Err(); err != nil { errc <- err }
StreamErr ==
    /\ stream.pc = "err"
    /\ stream.scanErr # "nil" => Len(stream.errc) < errcBuffer
    /\ stream' = [stream EXCEPT
                    !.errc = IF stream.scanErr # "nil" THEN Append(@, stream.scanErr) ELSE @,
                    !.pc = "close errc"]
    /\ StreamOnly

\* the deferred calls, last in first out: close(errc), then close(tokens)
StreamCloseErrc ==
    /\ stream.pc = "close errc"
    /\ stream' = [stream EXCEPT !.errcClosed = TRUE, !.pc = "close tokens"]
    /\ StreamOnly

StreamCloseTokens ==
    /\ stream.pc = "close tokens"
    /\ stream' = [stream EXCEPT !.tokensClosed = TRUE, !.pc = "done"]
    /\ StreamOnly

\* the consumer: for token := range tokens
ConsumerReceive ==
    /\ ~stream.sawClosed
    /\ stream.tokens # <<>>
    /\ stream' = [stream EXCEPT !.received = Append(@, Head(stream.tokens)),
                                !.tokens = Tail(@)]
    /\ StreamOnly

\* the range loop ends: the channel is closed and its buffer is empty
ConsumerRangeEnds ==
    /\ ~stream.sawClosed
    /\ stream.tokens = <<>> /\ stream.tokensClosed
    /\ stream' = [stream EXCEPT !.sawClosed = TRUE]
    /\ StreamOnly

\* the consumer: select { case err := <-errc: default: }, at any time until
\* it has received from errc
ConsumerPollErr ==
    /\ stream.errSeen = "none"
    /\ stream' = IF stream.errc # <<>>
                 THEN [stream EXCEPT !.errSeen = Head(stream.errc), !.errc = Tail(@),
                                     !.poll = "error"]
                 ELSE IF stream.errcClosed
                 THEN [stream EXCEPT !.errSeen = "nil", !.poll = "closed"]
                 ELSE [stream EXCEPT !.poll = "default"]
    /\ StreamOnly

StreamGoroutine ==
    \/ StreamScan \/ StreamSelect \/ StreamSend
    \/ StreamErr \/ StreamCloseErrc \/ StreamCloseTokens

NextStream ==
    \/ StreamScan \/ StreamSelect \/ StreamSend
    \/ StreamErr \/ StreamCloseErrc \/ StreamCloseTokens
    \/ ConsumerReceive \/ ConsumerRangeEnds \/ ConsumerPollErr

SpecStream == InitStream /\ [][NextStream]_vars

\* the goroutine runs when it can, and the consumer keeps receiving
SpecStreamFair ==
    SpecStream /\ WF_vars(StreamGoroutine) /\ WF_vars(ConsumerReceive)

\* C9, as stated: with BOS = EOS = false, decoding the IDs the scanner
\* emitted gives exactly the input, and the chunks handed to the encoder
\* are consecutive pieces of the input that cover it in order.
C9_ScannerRoundTrip ==
    (hist.ended /\ sc.opts = Options(FALSE, FALSE)) =>
        /\ Decode(hist.emitted) = rd.data
        /\ Concat(hist.chunks) = rd.data

\* C10, as stated: for a source of valid UTF-8, every buffer handed to the
\* encoder is a whole number of UTF-8 codepoints.
C10_ChunksAreWholeCodepoints ==
    ValidUTF8(rd.data) => \A i \in 1..Len(hist.chunks) : ValidUTF8(hist.chunks[i])
\* the number of times id occurs among the IDs
Occurrences(ids, id) == Cardinality({i \in 1..Len(ids) : ids[i] = id})

\* a Scan call returns false for the first time: the loop `for sc.Scan()`
\* of the consumer is over
ScanEnds == ~hist.ended /\ hist'.ended

\* what C11 says of the IDs emitted over a whole scan of data with options o
FramedOnce(emitted, chunks, data, o) ==
    LET n == Len(emitted)
    IN  /\ o.BOS =>
              /\ n >= 1 /\ emitted[1] = beginOfTextTokenID
              /\ Occurrences(emitted, beginOfTextTokenID) = 1
        /\ o.EOS =>
              /\ n >= 1 /\ emitted[n] = endOfTextTokenID
              /\ Occurrences(emitted, endOfTextTokenID) = 1
              /\ Concat(chunks) = data
        /\ (o.BOS /\ o.EOS /\ data = <<>>) =>
              emitted = <<beginOfTextTokenID, endOfTextTokenID>>
        /\ ~o.BOS => Occurrences(emitted, beginOfTextTokenID) = 0
        /\ ~o.EOS => Occurrences(emitted, endOfTextTokenID) = 0

\* C11, as stated: when the scan is over, the begin-of-text ID was emitted
\* exactly once and first when BOS is requested, the end-of-text ID exactly
\* once and last, after every input byte was tokenized, when EOS is
\* requested; the empty input with both requested gives exactly [BOS, EOS];
\* neither is added when not requested.
C11_BosEosExactlyOnce ==
    [][ScanEnds => FramedOnce(hist'.emitted, hist'.chunks, rd'.data, sc'.opts)]_vars

\* C12, as stated: the text buffer never holds more than max_buffer bytes,
\* neither between two reads nor when it is handed to the encoder.
C12_TextBufferBounded ==
    /\ Len(sc.textBuf) <= sc.maxBuffer
    /\ \A i \in 1..Len(hist.chunks) : Len(hist.chunks[i]) <= sc.maxBuffer

\* the lengths of the prefixes of a list of strings: where each string but
\* the last ends in their concatenation
RECURSIVE EndOffsets(_, _)
EndOffsets(ss, from) ==
    IF Len(ss) <= 1 THEN {}
    ELSE {from + Len(Head(ss))} \cup EndOffsets(Tail(ss), from + Len(Head(ss)))

\* the offsets in the input where the scanner cut it into chunks
ChunkBoundaries == EndOffsets(hist.chunks, 0)

\* the units Encode works on: the special tokens and the pre-tokens of the
\* stretches between them
RECURSIVE EncodeUnits(_)
EncodeUnits(parts) ==
    IF parts = <<>> THEN <<>>
    ELSE (IF MatchString(Head(parts)) /\ TokenLookup(Head(parts)) # 0
          THEN <<Head(parts)>> ELSE Tokenize(Head(parts)))
         \o EncodeUnits(Tail(parts))

\* the offsets in txt where one unit of the one-shot encoding ends and the
\* next begins
UnitBoundaries(txt) == EndOffsets(EncodeUnits(SplitBySpecialTokens(txt)), 0)

\* a cut at offset b is in the middle of a word: the bytes on both sides of
\* it are not whitespace
MidWord(txt, b) ==
    /\ txt[b] \notin {32, 10, 9, 13}
    /\ txt[b + 1] \notin {32, 10, 9, 13}

C14_ReadErrorIsTerminal ==
    [][/\ hist'.srcErrs > hist.srcErrs =>
             /\ sc'.pc = "idle" /\ hist'.emitted = hist.emitted
             /\ ~Err(sc').nil
             /\ Err(sc').Err = "read error"
             /\ Err(sc').Offset = Len(sc'.textBuf)
             /\ Err(sc').Text = sc'.textBuf
       /\ ~Err(sc).nil => (hist'.emitted = hist.emitted /\ sc' = sc)
       /\ hist'.srcErrs = 0 => Err(sc').nil]_vars

\* C15, as stated: after a Scan that tokenized a chunk and returned true,
\* Text() is the text of that chunk, and it stays so while Scan returns the
\* other tokens of the chunk.
C15_TextIsChunkOfToken ==
    [][Len(hist'.emitted) > Len(hist.emitted) =>
          IF hist'.chunks # hist.chunks
          THEN Text(sc') = hist'.chunks[Len(hist'.chunks)]
          ELSE sc'.tokens = sc.tokens => Text(sc') = Text(sc)]_vars

\* id_to_str over a list of IDs, concatenated
RECURSIVE IDsToString(_, _)
IDsToString(p, ids) ==
    IF ids = <<>> THEN <<>>
    ELSE ProcessorToken(p, Head(ids)) \o IDsToString(p, Tail(ids))

\* a PerformBPE call has returned
BPEReturned == bpe.pc = "idle" /\ bpe.calls > 0

\* C16: for every pre-token in the byte-level alphabet, the strings of the
\* IDs that PerformBPE returns, concatenated, are the pre-token; also when
\* the string of a merge has no ID and the merge is dropped.
C16_BPEConcatenation ==
    BPEReturned => IDsToString(bpe.p, bpe.result) = bpe.pretoken

\* a call returned after its merge loop dropped a merge and performed others
C16_Witness ==
    /\ BPEReturned
    /\ bpe.dropped > 0
    /\ Len(bpe.result) >= 2
    /\ Len(bpe.result) < Len(ToRunes(bpe.pretoken))
    /\ IDsToString(bpe.p, bpe.result) = bpe.pretoken


\* the IDs whose string is the pre-token of the call
DirectIDs == {i \in DOMAIN bpe.p.Tokens : bpe.p.Tokens[i] = bpe.pretoken}

\* C17: when the pre-token is the string of an ID i, PerformBPE returns
\* exactly <<i>>, with every merge list, and the merge loop does not run.
C17_DirectMatch ==
    BPEReturned => \A i \in DirectIDs : bpe.result = <<i>> /\ ~bpe.looped

\* a call returned the ID of a pre-token of several symbols on a cache miss,
\* although the processor's merge rules, applied to its symbols, end in two
\* tokens
C17_Witness ==
    /\ BPEReturned
    /\ ~bpe.hit
    /\ DirectIDs # {}
    /\ Len(ToRunes(bpe.pretoken)) >= 3
    /\ DOMAIN bpe.p.MergeRules # {}
    /\ \A i \in DirectIDs : bpe.result = <<i>>
    /\ ~bpe.looped
    /\ LET tokenIDs == pretokenToIDs(bpe.p, bpe.pretoken)
           st == MergeLoop(bpe.p, buildMergeList(bpe.p, tokenIDs, Len(bpe.pretoken)),
                           Len(bpe.pretoken))
       IN  Len(CollectIDs(st, st.first)) = 2


\* an iteration of the merge loop that performed a merge
MergePerformed == bpe.pc = "loop" /\ bpe'.pc = "loop" /\ bpe'.st # bpe.st /\ bpe'.merged # 0

\* C18: at every iteration of the merge loop that performs a merge, no
\* valid candidate in the queue with the same integer priority has a left
\* node of a smaller original position than the merged one; candidates
\* pushed after earlier merges included.
C18_LeftmostFirst ==
    [][MergePerformed =>
        \A y \in bpe.st.pq :
            (/\ isValidMerge(bpe.st, y)
             /\ IntegerPrio(bpe.st, y, Len(bpe.pretoken))
                  = IntegerPrio(bpe.st, bpe'.merged, Len(bpe.pretoken)))
            => bpe.st.nodes[bpe'.merged].OrigPos <= bpe.st.nodes[y].OrigPos]_vars

\* a merge was performed on a node pushed after earlier merges while a valid
\* candidate of the same integer priority, also pushed after earlier merges
\* and further right, was in the queue
C18_Witness ==
    /\ bpe.pc = "loop"
    /\ bpe.merged > Len(ToRunes(bpe.pretoken))
    /\ \E y \in bpe.rivals :
         /\ y > Len(ToRunes(bpe.pretoken))
         /\ bpe.st.nodes[bpe.merged].OrigPos < bpe.st.nodes[y].OrigPos


\* C19: the byte codec maps the 256 byte values to 256 distinct codepoints,
\* and DecodeTokenBytes(EncodeBytes(d)) is d for every byte sequence d.
C19_ByteCodecBijection ==
    /\ DOMAIN BytesToUnicode = 0..255
    /\ Cardinality({BytesToUnicode[b] : b \in 0..255}) = 256
    /\ codec.pc = "decoded" => codec.bytes = codec.data

\* a sequence with a byte that maps to itself and one that maps to a symbol
\* of two UTF-8 bytes came back from the decoder
C19_Witness ==
    /\ codec.pc = "decoded"
    /\ Len(codec.data) >= 2
    /\ \E i \in 1..Len(codec.data) : BytesToUnicode[codec.data[i]] = codec.data[i]
    /\ \E i \in 1..Len(codec.data) : BytesToUnicode[codec.data[i]] >= unicodeOffset
    /\ Len(codec.token) > Len(codec.data)
    /\ codec.bytes = codec.data


\* C20: an LRU cache of capacity K > 0 holds at most K entries after any
\* sequence of Put and Get calls.
C20_LRUAtMostCapacity ==
    (cache.kind = "lru" /\ cache.capacity > 0) =>
        /\ Len(cache.lru) <= cache.capacity
        /\ Cardinality(CacheKeys(cache)) <= cache.capacity

\* a Put of a new key into a full cache of capacity two or more has returned
C20_Witness ==
    /\ cache.kind = "lru"
    /\ cache.capacity >= 2
    /\ hist.op = "Put"
    /\ ~hist.ok
    /\ hist.before = cache.capacity
    /\ Len(cache.lru) = cache.capacity
    /\ cache.lru[1].key = hist.key


\* the key of a non-empty set that comes last in a sequence of keys
OldestOf(keys, order) ==
    CHOOSE k \in keys : \A other \in keys :
        (CHOOSE i \in 1..Len(order) : order[i] = other)
            <= (CHOOSE i \in 1..Len(order) : order[i] = k)

\* the last call was a Put of a key not held into a full LRU cache
PutIntoFull ==
    /\ cache.kind = "lru" /\ cache.capacity > 0
    /\ hist'.op = "Put" /\ ~hist'.ok /\ hist'.before = cache.capacity

\* the last call was a Get hit or a Put on a key that was held
UseOfHeld == cache.kind = "lru" /\ hist'.op \in {"Put", "Get"} /\ hist'.ok

\* C21: a Put of a key not held into a full LRU cache of capacity K > 0
\* removes exactly one entry, the one whose most recent use is the oldest;
\* a Get hit or a Put on a held key removes nothing and makes the key the
\* most recently used one.
C21_EvictsLeastRecentlyUsed ==
    [][/\ PutIntoFull =>
            /\ Len(cache'.lru) = cache.capacity
            /\ CacheKeys(cache') =
                 (CacheKeys(cache) \ {OldestOf(CacheKeys(cache), hist.used)})
                    \cup {hist'.key}
            /\ cache'.lru[1].key = hist'.key
       /\ UseOfHeld =>
            /\ CacheKeys(cache') = CacheKeys(cache)
            /\ Len(cache'.lru) = Len(cache.lru)
            /\ cache'.lru[1].key = hist'.key]_vars

\* a Put into a full cache has removed an entry that was not the one
\* inserted first: a later use had made that one more recent
C21_Witness ==
    /\ cache.kind = "lru"
    /\ cache.capacity >= 2
    /\ hist.op = "Put" /\ ~hist.ok /\ hist.before = cache.capacity
    /\ Cardinality(hist.victim) = 1
    /\ hist.fifo \notin hist.victim
    /\ hist.fifo \in CacheKeys(cache)


\* a cache without a limit: SimpleCache, or an LRU cache of capacity 0
Unlimited(c) == c.kind = "simple" \/ c.capacity = 0

\* the keys put and not evicted since: all of them in a cache without a
\* limit, otherwise the capacity most recently used ones
NotEvicted ==
    IF Unlimited(cache) THEN DOMAIN hist.put
    ELSE {hist.used[i] : i \in 1..(IF Len(hist.used) < cache.capacity
                                   THEN Len(hist.used) ELSE cache.capacity)}

\* C22: for both implementations Get(k) returns the value of the most
\* recent Put(k, v) and true when k was put and not evicted since, and
\* (nil, false) otherwise; a cache without a limit never loses an entry.
C22_GetReturnsLastPut ==
    /\ hist.op = "Get" =>
         IF hist.key \in NotEvicted
         THEN hist.ok /\ hist.value = hist.put[hist.key]
         ELSE ~hist.ok /\ hist.value = <<>>
    /\ \A k \in LRUKeys :
         LET got == CacheGet(cache, k)
         IN  IF k \in NotEvicted THEN got.ok /\ got.value = hist.put[k]
             ELSE ~got.ok /\ got.value = <<>>
    /\ Unlimited(cache) => CacheKeys(cache) = DOMAIN hist.put

\* a Get on a limited LRU cache returned the value of a key whose value was
\* put after other keys had been evicted
C22_Witness ==
    /\ cache.kind = "lru" /\ cache.capacity >= 1
    /\ hist.op = "Get" /\ hist.ok
    /\ Len(hist.used) > cache.capacity
    /\ hist.value = hist.put[hist.key]
    /\ hist.value = <<0, 1>>


\* the keys of the recency list
ListKeys(c) == {c.lru[i].key : i \in 1..Len(c.lru)}

\* C23: under every interleaving of Get and Put calls of several goroutines
\* each call takes effect as a whole: whenever no call is inside Put or Get
\* with the write lock, the key index and the recency list hold the same
\* keys and the cache is what the calls give one after the other in the
\* order they got the lock; every Get returns what it returns in that order;
\* no Put on a cache without a limit is lost.
C23_CallsAreAtomic ==
    /\ cache.mu = 0 =>
         /\ cache.kind = "lru" => cache.items = ListKeys(cache)
         /\ cache.lru = hist.serial.lru
         /\ cache.cache = hist.serial.cache
         /\ Unlimited(cache) =>
              hist.puts = (IF cache.kind = "lru" THEN ListKeys(cache) ELSE DOMAIN cache.cache)
    /\ \A g \in Goroutines :
         (gor[g].pc = "unlock" /\ gor[g].op = "Get") => gor[g].ret = gor[g].expect

\* all calls have returned, one of them has waited for the lock, and the
\* LRU cache of capacity 1 has evicted a key
C23_Witness ==
    /\ hist.waited
    /\ hist.calls >= 2
    /\ \A g \in Goroutines : gor[g].pc = "idle"
    /\ cache.mu = 0
    /\ cache.kind = "lru" /\ cache.capacity = 1
    /\ Cardinality(hist.puts) = 2
    /\ cache.items = ListKeys(cache)
    /\ Cardinality(cache.items) = 1


\* the string begins with "<|" and ends with "|>"
HasSpecialFormat(s) ==
    /\ Len(s) >= 2
    /\ <<s[1], s[2]>> = <<60, 124>>
    /\ <<s[Len(s) - 1], s[Len(s)]>> = <<124, 62>>

\* the IDs of the vocabulary whose string is s
IDsOf(s) == {id \in SpelledIDs : TokenTable[id] = s}

\* C24: GetSpecialTokenID(s) returns an ID and no error exactly when s has
\* the format and is in the vocabulary, and then the ID is the one of s;
\* without the format it returns 0 and the invalid-token error, also when s
\* is in the vocabulary; with the format and not in the vocabulary it
\* returns 0 and the token-not-found error.
C24_SpecialTokenLookup ==
    phase = "returned" =>
        /\ hist.err = "nil" <=> (HasSpecialFormat(text) /\ IDsOf(text) # {})
        /\ hist.err = "nil" => hist.id \in IDsOf(text)
        /\ ~HasSpecialFormat(text) => hist.id = 0 /\ hist.err = "ErrInvalidToken"
        /\ (HasSpecialFormat(text) /\ IDsOf(text) = {}) =>
              hist.id = 0 /\ hist.err = "ErrTokenNotFound"

\* a string of the vocabulary without the format was refused as invalid
C24_Witness ==
    /\ phase = "returned"
    /\ IDsOf(text) # {}
    /\ ~HasSpecialFormat(text)
    /\ hist = [id |-> 0, err |-> "ErrInvalidToken"]



\* the ID is one of the vocabulary
ValidID(id) == 0 <= id /\ id < NumTokens

\* C25: Decode returns for every ID list, and what it returns is what it
\* returns for the list without the IDs outside [0, VocabSize).
C25_DecodeSkipsInvalidIDs ==
    phase = "decoded" =>
        /\ decoded = Decode(SelectSeq(output, ValidID))
        /\ decoded \in Seq(0..255)

\* a list with a negative ID, an ID past the vocabulary and valid IDs after
\* them was decoded to the bytes of the valid ones
C25_Witness ==
    /\ phase = "decoded"
    /\ Len(output) >= 3
    /\ output[1] < 0
    /\ \E i \in 1..Len(output) : output[i] >= NumTokens
    /\ ValidID(output[Len(output)])
    /\ decoded # <<>>
    /\ decoded = Decode(SelectSeq(output, ValidID))


\* where the elements of a list of strings lie in their concatenation
Spans(ss) ==
    { <<Len(Concat(SubSeq(ss, 1, k - 1))), Len(Concat(SubSeq(ss, 1, k)))>> :
        k \in 1..Len(ss) }

\* the non-empty matches, and the non-empty stretches of the text that no
\* match touches: from the start or the end of a match to the start of the
\* next one or the end of the text
NonEmptyMatches == {<<hist.matches[k][1], hist.matches[k][2]>> : k \in
                       {j \in 1..Len(hist.matches) : hist.matches[j][1] < hist.matches[j][2]}}
Between ==
    LET n      == Len(hist.matches)
        from(k) == IF k = 0 THEN 0 ELSE hist.matches[k][2]
        to(k)   == IF k = n THEN Len(text) ELSE hist.matches[k + 1][1]
    IN  {<<from(k), to(k)>> : k \in {j \in 0..n : from(j) < to(j)}}

\* C26: the split has no empty element, its elements concatenate to the
\* text, every match and every stretch between matches is one element, and
\* the empty text gives the empty list.
C26_SplitPreservesText ==
    phase = "split" =>
        /\ \A k \in 1..Len(hist.result) : hist.result[k] # <<>>
        /\ Concat(hist.result) = text
        /\ Spans(hist.result) = NonEmptyMatches \cup Between
        /\ text = <<>> => hist.result = <<>>

\* a text with two matches, text before, between and after them, split in
\* five
C26_Witness ==
    /\ phase = "split"
    /\ hist.regex = "SpecialTokenRegex"
    /\ Len(hist.matches) = 2
    /\ Len(hist.result) = 5
    /\ Concat(hist.result) = text

\* an arbitrary pattern with an empty match inside the text
C26_WitnessEmptyMatch ==
    /\ phase = "split"
    /\ hist.regex = "any"
    /\ \E k \in 1..Len(hist.matches) :
          hist.matches[k][1] = hist.matches[k][2] /\ hist.matches[k][1] = 1
    /\ Len(hist.result) = 2


\* New has returned a tokenizer and no error
Built == phase = "built" /\ ~hist.t.nil /\ hist.err = "nil"

\* C27, as stated: after New succeeds, the reverse map sends the string of
\* every ID back to that ID, whatever the base vocabulary and the special
\* tokens.
C27_ReverseLookup ==
    Built =>
        \A i \in 0..(Len(hist.t.tokens) - 1) :
            hist.t.tokenLookup[hist.t.tokens[i + 1]] = i

\* C28, as stated: when the loaded base vocabulary has not 128,000 strings
\* New returns an error and no tokenizer.
C28_RejectsWrongLength ==
    (phase # "start" /\ ApplyOptions(DefaultConfig, hist.options).err = "nil"
       /\ ~hist.loader.vocabErr /\ Len(hist.loader.vocab) # baseVocabSize)
        => (hist.t.nil /\ hist.err # "nil")

\* C29, as stated: a tokenizer built with WithCacheSize(0) stores no BPE
\* result and reuses none; a negative size is a configuration error.
C29_CacheSizeZeroDisables ==
    /\ (Built /\ hist.t.cacheSize = 0
          /\ \E k \in 1..Len(hist.options) :
                hist.options[k].opt = "WithCacheSize" /\ hist.options[k].size = 0)
          => (CacheKeys(hist.t.cache) = {} /\ hist.hits = 0)
    /\ (phase # "start"
          /\ \E k \in 1..Len(hist.options) :
                hist.options[k].opt = "WithCacheSize" /\ hist.options[k].size < 0)
          => (hist.t.nil
              /\ hist.err \in {"config cache_size", "config special_tokens: validate",
                               "config special_tokens: duplicate"})


\* the tokens the scanner has produced so far, in scan order
Scanned == [k \in 1..stream.scanned |-> ScanToken(k)]

\* C30: what the consumer has received and what waits in the channel is
\* what the scanner produced, in scan order, up to the token in the
\* goroutine's hand; the channel is closed only after all of it was sent;
\* once the tokens channel is closed an error of the scan is on the error
\* channel or with the consumer; and both channels are closed in the end.
C30_TokenStream ==
    /\ [](LET sent == stream.received \o stream.tokens
          IN  /\ sent = IF stream.pc \in {"select", "default"}
                        THEN SubSeq(Scanned, 1, stream.scanned - 1) ELSE Scanned
              /\ stream.tokensClosed => (sent = Scanned /\ stream.scanned = stream.n)
              /\ stream.sawClosed => stream.received = [k \in 1..stream.n |-> ScanToken(k)]
              /\ (stream.tokensClosed /\ stream.scanErr # "nil")
                    => (stream.errc = <<stream.scanErr>> \/ stream.errSeen = stream.scanErr)
              /\ (stream.sawClosed /\ stream.errSeen # "none" /\ stream.scanErr = "nil")
                    => stream.errSeen = "nil")
    /\ <>(stream.tokensClosed /\ stream.errcClosed)

\* the channel was full at a select, the goroutine waited, the consumer got
\* every token and saw the channel closed, and the error is on errc
C30_Witness ==
    /\ stream.full
    /\ stream.sawClosed
    /\ Len(stream.received) = MaxStreamTokens
    /\ stream.scanErr = "read error"
    /\ stream.errc = <<"read error">>


\* where rule k, tried on its own at position p, leaves the position: p
\* when it does not match
RuleEnd(k, in, p) ==
    CASE k = 1 -> tryContraction(in, p)
      [] k = 2 -> tryWordWithPrefix(in, p)
      [] k = 3 -> tryNumbers(in, p)
      [] k = 4 -> tryPunctuationWithSpace(in, p)
      [] k = 5 -> tryNewlineSequence(in, p)
      [] k = 6 -> tryWhitespace(in, p)
      [] k = 7 -> p + 1

\* the first rule in the fixed order that matches at p
FirstRule(in, p) ==
    CHOOSE k \in 1..7 : RuleEnd(k, in, p) # p /\ \A j \in 1..(k - 1) : RuleEnd(j, in, p) = p

\* C31: every iteration appends the token of the first rule that matches
\* at the position, and the token starts at that position: the rules that
\* did not match before it have not moved the position.
C31_FirstMatchingRule ==
    [][(phase = "tokenize" /\ position < Len(input) /\ phase' = "tokenize") =>
          /\ position' = RuleEnd(FirstRule(input, position), input, position)
          /\ tokens' = Append(tokens, FromRunes(Slice(input, position, position')))]_vars

\* two rules match at the start with different tokens, the contraction and
\* the word with the apostrophe as its prefix, and the first token is the
\* contraction's
C31_Witness ==
    /\ phase = "tokenize"
    /\ Len(tokens) >= 1
    /\ tryContraction(input, 0) # 0
    /\ tryWordWithPrefix(input, 0) \notin {0, tryContraction(input, 0)}
    /\ tokens[1] = FromRunes(Slice(input, 0, tryContraction(input, 0)))


\* C32: an iteration started with position < len(input) moves the position
\* forward, not past the end, and appends one pre-token, which is not
\* empty; the iterations so far are never more than the runes passed; and
\* Tokenize returns.
C32_TokenizeTerminates ==
    /\ [][(phase = "tokenize" /\ position < Len(input) /\ phase' = "tokenize") =>
             /\ position' > position /\ position' <= Len(input)
             /\ Len(tokens') = Len(tokens) + 1
             /\ tokens'[Len(tokens')] # <<>>]_vars
    /\ [](Len(tokens) <= position /\ position <= Len(input))
    /\ <>(phase = "returned" /\ Len(output) <= Len(input))

\* Tokenize has returned after as many iterations as the input has runes,
\* and after fewer on another input
C32_Witness ==
    /\ phase = "returned"
    /\ Len(input) >= 3
    /\ Len(output) = Len(input)


\* the reference procedure on a list of IDs: the adjacent pairs that have a
\* merge rule, the one of the lowest priority and the leftmost of these,
\* and the list with that pair replaced by the ID of the two strings joined
MergeablePairs(p, ids) ==
    {i \in 1..(Len(ids) - 1) :
        ProcessorMergeIdentifier(p, ids[i], ids[i + 1]) \in DOMAIN p.MergeRules}

PairPrio(p, ids, i) == p.MergeRules[ProcessorMergeIdentifier(p, ids[i], ids[i + 1])]

GreedyPair(p, ids) ==
    CHOOSE i \in MergeablePairs(p, ids) :
        \A j \in MergeablePairs(p, ids) :
            \/ PairPrio(p, ids, i) < PairPrio(p, ids, j)
            \/ PairPrio(p, ids, i) = PairPrio(p, ids, j) /\ i <= j

GreedyStep(p, ids) ==
    IF MergeablePairs(p, ids) = {} THEN ids
    ELSE LET i == GreedyPair(p, ids)
         IN  SubSeq(ids, 1, i - 1)
             \o <<p.TokenLookup[ProcessorToken(p, ids[i]) \o ProcessorToken(p, ids[i + 1])]>>
             \o SubSeq(ids, i + 2, Len(ids))

RECURSIVE GreedyBPE(_, _)
GreedyBPE(p, ids) ==
    IF MergeablePairs(p, ids) = {} THEN ids ELSE GreedyBPE(p, GreedyStep(p, ids))

\* a well-formed vocabulary and merge table: no string twice, and the two
\* strings of every merge rule, joined, are a string of the vocabulary
WellFormed(p) ==
    /\ \A i, j \in DOMAIN p.Tokens : p.Tokens[i] = p.Tokens[j] => i = j
    /\ \A i, j \in DOMAIN p.Tokens :
          ProcessorMergeIdentifier(p, i, j) \in DOMAIN p.MergeRules
             => (p.Tokens[i] \o p.Tokens[j]) \in DOMAIN p.TokenLookup

\* C33: with a well-formed vocabulary and merge table, every iteration of
\* the merge loop that merges turns the list into the list the reference
\* procedure makes of it in one step, an iteration that skips a stale entry
\* leaves the list as it is, and PerformBPE returns, for a pre-token that is
\* no vocabulary entry, what the reference procedure returns from one token
\* per codepoint.
C33_HeapEqualsGreedy ==
    /\ [][(bpe.pc = "loop" /\ bpe'.pc = "loop" /\ WellFormed(bpe.p)) =>
            LET before == CollectIDs(bpe.st, bpe.st.first)
                after  == CollectIDs(bpe'.st, bpe'.st.first)
            IN  IF bpe'.merged # 0
                THEN after # before /\ after = GreedyStep(bpe.p, before)
                ELSE after = before]_vars
    /\ []((BPEReturned /\ WellFormed(bpe.p) /\ DirectIDs = {})
            => bpe.result = GreedyBPE(bpe.p, pretokenToIDs(bpe.p, bpe.pretoken)))

\* a call on a well-formed processor returned after three merges or more,
\* the reference result being neither the initial tokens nor one token
C33_Witness ==
    /\ BPEReturned /\ ~bpe.hit /\ bpe.looped
    /\ WellFormed(bpe.p)
    /\ DirectIDs = {}
    /\ Len(pretokenToIDs(bpe.p, bpe.pretoken)) >= Len(bpe.result) + 3
    /\ Len(bpe.result) >= 2
    /\ bpe.result = GreedyBPE(bpe.p, pretokenToIDs(bpe.p, bpe.pretoken))

----------------------------------------------------------------------------
(* When the scanner tokenizes (SpecScan).                                   *)

\* the scanner right after the readMoreData of a step of the read loop: the
\* bytes read are those the reader advanced over, and done is set by io.EOF
AfterRead == readMoreData(sc, Slice(rd.data, rd.off, rd'.off), sc'.done)

\* the buffer ends on a UTF-8 codepoint boundary: its last lead or ASCII
\* byte starts a sequence that ends with the buffer
EndsOnCodepointBoundary(buf) ==
    LET heads == {i \in 1..Len(buf) : ~IsContinuation(buf[i])}
    IN  /\ heads # {}
        /\ \E h \in heads :
              /\ \A i \in heads : i <= h
              /\ (IF buf[h] < 128 THEN 1 ELSE SeqLen(buf[h])) = Len(buf) - h + 1

\* the four cases in which the buffer is tokenized after a read
EndsWithWhitespace(s) ==
    Len(s.textBuf) > 0 /\ s.textBuf[Len(s.textBuf)] \in {9, 10, 13, 32}

HalfFullOnBoundary(s) ==
    2 * Len(s.textBuf) >= s.bufSize /\ EndsOnCodepointBoundary(s.textBuf)

AtMaximum(s) == Len(s.textBuf) >= s.maxBuffer

\* C34: after each read the scanner leaves the read loop and tokenizes the
\* buffer exactly when the buffer ends with ASCII whitespace, or is at least
\* half-full and ends on a codepoint boundary, or is at the maximum, or EOF
\* was reached; otherwise it stays in the read loop.
C34_TokenizesExactlyWhen ==
    [][(sc.pc = "reading" /\ sc' # sc) =>
          ((sc'.pc = "idle") <=>
              \/ EndsWithWhitespace(AfterRead)
              \/ HalfFullOnBoundary(AfterRead)
              \/ AtMaximum(AfterRead)
              \/ AfterRead.done)]_vars

----------------------------------------------------------------------------
(* The merge blob (SpecMerges): unpack17BitIntegers and decompressMerges    *)
(* on the bytes the base64 decoding returns.  data[i] of the code is        *)
(* data[i + 1] here.                                                        *)

MaxBlobIDs == 5
MaxBlobLen == 17

\* tokenID & bitMask[8-bitOffset-1] left out
maskNone(tokenID, bitOffset) == tokenID

\* tokenID & bitMask[8-bitOffset-1]: bitMask[j] has 17 + j one bits
maskLeft(tokenID, bitOffset) ==
    IF bitOffset < 8 THEN tokenID % (2 ^ (17 + (8 - bitOffset - 1))) ELSE tokenID

\* rightShift := 8 - (17 - 8 - (8 - bitOffset)); tokenID >> rightShift
shiftRight(tokenID, bitOffset) ==
    Bind(8 - (17 - 8 - (8 - bitOffset)),
         LAMBDA rightShift :
            IF rightShift > 0 /\ rightShift < 24 THEN tokenID \div (2 ^ rightShift)
            ELSE tokenID)

\* the loop of unpack17BitIntegers from bitIndex on: the values appended
\* and the byte indices read
RECURSIVE unpackLoop(_, _, _, _)
unpackLoop(data, bitIndex, firstPaddingBit, acc) ==
    IF bitIndex >= firstPaddingBit THEN acc
    ELSE Bind(bitIndex \div 8,
              LAMBDA byteIndex :
                 IF byteIndex + 2 >= Len(data) THEN acc
                 ELSE unpackLoop(data, bitIndex + 17, firstPaddingBit,
                         [tokenIDs |-> Append(acc.tokenIDs,
                                         shiftRight(maskLeft(data[byteIndex + 1] * 65536
                                                               + data[byteIndex + 2] * 256
                                                               + data[byteIndex + 3],
                                                             bitIndex % 8),
                                                    bitIndex % 8)),
                          reads |-> acc.reads \cup {byteIndex, byteIndex + 1, byteIndex + 2}]))

unpackFrom(data) ==
    IF Len(data) = 0 THEN [tokenIDs |-> <<>>, reads |-> {}]
    ELSE unpackLoop(data, 0, (Len(data) * 8) - ((Len(data) * 8) % 17),
                    [tokenIDs |-> <<>>, reads |-> {}])

unpack17BitIntegers(data) == unpackFrom(data).tokenIDs

\* the loop of decompressMerges from index i of tokenIDs on
RECURSIVE decompressLoop(_, _, _, _)
decompressLoop(tokenIDs, vocabByID, i, merges) ==
    IF i >= Len(tokenIDs) \/ i + 1 >= Len(tokenIDs) THEN merges
    ELSE IF tokenIDs[i + 1] >= Len(vocabByID) \/ tokenIDs[i + 2] >= Len(vocabByID)
    THEN decompressLoop(tokenIDs, vocabByID, i + 2, merges)
    ELSE Bind(vocabByID[tokenIDs[i + 1] + 1] \o <<32>> \o vocabByID[tokenIDs[i + 2] + 1],
              LAMBDA mergeIdentifier :
                 decompressLoop(tokenIDs, vocabByID, i + 2,
                    [m \in DOMAIN merges \cup {mergeIdentifier} |->
                        IF m = mergeIdentifier THEN i \div 2 + 1 ELSE merges[m]]))

decompressMerges(data, vocabByID) ==
    decompressLoop(unpack17BitIntegers(data), vocabByID, 0, <<>>)

\* the blobs of the model: the IDs of BlobIDs written as 17 bits each, most
\* significant bit first, the last byte filled up with fill bits, and
\* possibly one more byte of fill bits
BlobIDs == {0, 1, 2, 131071}

IDBits(id) == [j \in 1..17 |-> (id \div (2 ^ (17 - j))) % 2]

BitsToBytes(bits) ==
    [b \in 1..(Len(bits) \div 8) |->
        bits[8 * b - 7] * 128 + bits[8 * b - 6] * 64 + bits[8 * b - 5] * 32
        + bits[8 * b - 4] * 16 + bits[8 * b - 3] * 8 + bits[8 * b - 2] * 4
        + bits[8 * b - 1] * 2 + bits[8 * b]]

Pack(ids, fill, extra) ==
    Bind(Concat([k \in 1..Len(ids) |-> IDBits(ids[k])]),
         LAMBDA bits :
            BitsToBytes(bits \o [j \in 1..(((8 - (Len(bits) % 8)) % 8) + 8 * extra) |-> fill]))

\* and the blobs of one repeated byte, long enough for a value at every bit
\* offset of a byte
Blobs == {Pack(ids, fill, extra) :
             ids \in SeqsUpTo(BlobIDs, MaxBlobIDs), fill \in {0, 1}, extra \in {0, 1}}
         \cup {[i \in 1..n |-> b] : n \in 0..MaxBlobLen, b \in {85, 150}}

MergeVocabs == { << <<97>> >>, << <<97>>, <<32>> >>, << <<97>>, <<97>> >> }

InitMerges ==
    /\ hist \in {[data |-> d, vocabByID |-> v, tokenIDs |-> <<>>, reads |-> {},
                  merges |-> <<>>] : d \in Blobs, v \in MergeVocabs}
    /\ phase = "start"
    /\ text = <<>> /\ input = <<>> /\ position = 0 /\ tokens = <<>>
    /\ opts = NilOptions /\ cache = NewSimple
    /\ output = <<>> /\ decoded = <<>>
    /\ gor = <<>> /\ pool = <<>>
    /\ sc = NoCall /\ rd = NoCall /\ bpe = NoCall /\ codec = NoCall /\ stream = NoCall

\* unpack17BitIntegers(data)
UnpackCall ==
    /\ phase = "start"
    /\ \E r \in {unpackFrom(hist.data)} :
          hist' = [hist EXCEPT !.tokenIDs = r.tokenIDs, !.reads = r.reads]
    /\ phase' = "unpacked"
    /\ UNCHANGED <<text, input, position, tokens, opts, cache, output, decoded,
                   gor, pool, sc, rd, bpe, codec, stream>>

\* t.decompressMerges(mergesBinary), after the base64 decoding
DecompressMergesCall ==
    /\ phase = "start"
    /\ \E r \in {unpackFrom(hist.data)} :
          hist' = [hist EXCEPT !.tokenIDs = r.tokenIDs, !.reads = r.reads,
                               !.merges = decompressLoop(r.tokenIDs, hist.vocabByID, 0, <<>>)]
    /\ phase' = "decompressed"
    /\ UNCHANGED <<text, input, position, tokens, opts, cache, output, decoded,
                   gor, pool, sc, rd, bpe, codec, stream>>

NextMerges == UnpackCall \/ DecompressMergesCall

SpecMerges == InitMerges /\ [][NextMerges]_vars

\* bit i (from 0) of data, most significant bit of each byte first
BitOf(data, i) == (data[i \div 8 + 1] \div (2 ^ (7 - (i % 8)))) % 2

\* the unsigned integer of the bits from..(from + 16) of data
RECURSIVE BitsValue(_, _, _)
BitsValue(data, from, n) ==
    IF n = 0 THEN 0
    ELSE 2 * BitsValue(data, from, n - 1) + BitOf(data, from + n - 1)

\* the pairs of consecutive values of the blob, in order
BlobPairs(data) ==
    [k \in 1..(((8 * Len(data)) \div 17) \div 2) |->
        <<BitsValue(data, 17 * (2 * k - 2), 17), BitsValue(data, 17 * (2 * k - 1), 17)>>]

PairInRange(pair, vocabByID) == pair[1] < Len(vocabByID) /\ pair[2] < Len(vocabByID)

PairKey(pair, vocabByID) == vocabByID[pair[1] + 1] \o <<32>> \o vocabByID[pair[2] + 1]

\* C35: the merge map holds exactly the keys of the pairs whose IDs are in
\* range, and each key has the priority k of the first pair (counted from 1)
\* that has this key: later pairs with the same key are ignored.
C35_FirstPriorityKept ==
    phase = "decompressed" =>
        \E pairs \in {BlobPairs(hist.data)} :
           \E ok \in {{k \in 1..Len(pairs) : PairInRange(pairs[k], hist.vocabByID)}} :
              /\ DOMAIN hist.merges = {PairKey(pairs[k], hist.vocabByID) : k \in ok}
              /\ \A k \in ok :
                    (\A j \in ok : PairKey(pairs[j], hist.vocabByID)
                                      = PairKey(pairs[k], hist.vocabByID) => k <= j)
                    => hist.merges[PairKey(pairs[k], hist.vocabByID)] = k

\* C36: unpacking returns floor(8 * len(data) / 17) values, the k-th (from
\* 0) being the unsigned integer of bits 17k..17k+16 of data, most
\* significant bit first; every value is below 2^17 and only bytes of data
\* are read.
C36_Unpack17Bit ==
    phase = "unpacked" =>
        /\ Len(hist.tokenIDs) = (8 * Len(hist.data)) \div 17
        /\ \A k \in 0..(Len(hist.tokenIDs) - 1) :
              /\ hist.tokenIDs[k + 1] = BitsValue(hist.data, 17 * k, 17)
              /\ hist.tokenIDs[k + 1] < 2 ^ 17
        /\ hist.reads \subseteq 0..(Len(hist.data) - 1)

\* three values unpacked, one of them with all bits set, another one not
\* starting on a byte, and trailing one bits that fill no value
C36_Witness ==
    /\ phase = "unpacked"
    /\ Len(hist.tokenIDs) = 3
    /\ hist.tokenIDs[2] = 131071 /\ hist.tokenIDs[3] = 1
    /\ ((8 * Len(hist.data)) % 17) > 0
    /\ hist.data[Len(hist.data)] = 255

----------------------------------------------------------------------------
(* Encode and AppendTokens on the tokenizers New returns (SpecEncNew): the  *)
(* tables are those of the tokenizer t, not the default ones.               *)

MaxEncParts == 3

\* t.tokenLookup[s], the zero value when the key is absent
TokenizerLookup(t, s) == IF s \in DOMAIN t.tokenLookup THEN t.tokenLookup[s] ELSE 0

\* t.GetSpecialTokenID(token): <<id, ok>>
TokenizerSpecialID(t, token) ==
    IF ~IsSpecialToken(token) THEN <<0, FALSE>>
    ELSE IF token \notin DOMAIN t.tokenLookup THEN <<0, FALSE>>
    ELSE <<t.tokenLookup[token], TRUE>>

\* a test that takes every strict match found in the vocabulary as special
isSpecialSplitAnyID(t, specialSplit) ==
    MatchString(specialSplit) /\ specialSplit \in DOMAIN t.tokenLookup

\* specialTokenRegex.MatchString(specialSplit) && t.tokenLookup[specialSplit] != 0
isSpecialSplit(t, specialSplit) ==
    MatchString(specialSplit) /\ TokenizerLookup(t, specialSplit) # 0

\* the loop over the pre-tokens of one part, from the i-th on, with the
\* Processor p of the tokenizer
RECURSIVE EncodePretokensOf(_, _, _)
EncodePretokensOf(p, pretokens, i) ==
    IF i > Len(pretokens) THEN [ids |-> <<>>, cache |-> p.Cache]
    ELSE IF pretokens[i] = <<>> THEN EncodePretokensOf(p, pretokens, i + 1)
    ELSE Bind(PerformBPE(p, pretokens[i]),
              LAMBDA r :
                Bind(EncodePretokensOf([p EXCEPT !.Cache = r.cache], pretokens, i + 1),
                     LAMBDA rest : [ids |-> r.ids \o rest.ids, cache |-> rest.cache]))

\* the loop over the parts of the special-token split, from the i-th on:
\* the IDs appended for each part, and the cache
RECURSIVE EncodePartsOf(_, _, _)
EncodePartsOf(t, parts, i) ==
    IF i > Len(parts) THEN [emitted |-> <<>>, cache |-> t.cache]
    ELSE Bind(IF isSpecialSplit(t, parts[i])
              THEN [ids |-> <<TokenizerLookup(t, parts[i])>>, cache |-> t.cache]
              ELSE EncodePretokensOf(ProcessorOf(t), pretokenize(parts[i]), 1),
              LAMBDA r :
                Bind(EncodePartsOf([t EXCEPT !.cache = r.cache], parts, i + 1),
                     LAMBDA rest : [emitted |-> <<r.ids>> \o rest.emitted,
                                    cache |-> rest.cache]))

\* t.AppendTokens(dst, text, opts); t.Encode(text, opts) appends to an empty
\* output in the same way
AppendTokens(t, dst, txt, o) ==
    LET opt == IF o.nil THEN defaultEncodeOptions ELSE o
    IN  Bind(TokenizerSpecialID(t, beginOfTextToken), LAMBDA bos :
        Bind(TokenizerSpecialID(t, endOfTextToken), LAMBDA eos :
        Bind(EncodePartsOf(t, SplitBySpecialTokens(txt), 1), LAMBDA body :
          [ids     |-> dst
                       \o (IF opt.BOS /\ bos[2] THEN <<bos[1]>> ELSE <<>>)
                       \o Concat(body.emitted)
                       \o (IF opt.EOS /\ eos[2] THEN <<eos[1]>> ELSE <<>>),
           emitted |-> body.emitted,
           cache   |-> body.cache])))

EotID == <<60, 124, 101, 111, 116, 95, 105, 100, 124, 62>>

\* the texts: up to MaxEncParts pieces out of e, two strict special tokens
\* and <|x|>, which has the format but is no strict special token
EncNewTexts == {Concat(ps) : ps \in SeqsUpTo({<<101>>, EotID, beginOfTextToken, CustomSpecialX},
                                             MaxEncParts)}

\* the tokenizers: an empty vocabulary or the vocabulary e, with the rule
\* e+e; the default special tokens or a list of one or two
EncNewOptions ==
    { <<>>,
      <<[opt |-> "WithCacheSize", size |-> 1, tokens |-> NilStrings]>>,
      <<[opt |-> "WithSpecialTokens", size |-> 0, tokens |-> Strings(<<EotID>>)]>>,
      <<[opt |-> "WithSpecialTokens", size |-> 0, tokens |-> Strings(<<CustomSpecialX, EotID>>)]>>,
      <<[opt |-> "WithSpecialTokens", size |-> 0, tokens |-> Strings(<<CustomSpecialX>>)]>> }

EncNewLoaders ==
    {[vocabErr |-> FALSE, vocab |-> v, mergesErr |-> FALSE, merges |-> m] :
        v \in {<<>>, << <<101>> >>}, m \in {(<<101, 32, 101>> :> 1)}}

InitEncNew ==
    /\ text \in EncNewTexts
    /\ opts \in AllOptions
    /\ \E options \in EncNewOptions, loader \in EncNewLoaders :
          hist = [t |-> New(options, loader).t, dst |-> <<>>, emitted |-> <<>>]
    /\ phase = "start"
    /\ input = <<>> /\ position = 0 /\ tokens = <<>>
    /\ cache = NewSimple
    /\ output = <<>> /\ decoded = <<>>
    /\ gor = <<>> /\ pool = <<>>
    /\ sc = NoCall /\ rd = NoCall /\ bpe = NoCall /\ codec = NoCall /\ stream = NoCall

\* output := t.Encode(text, opts)
EncodeOfCall ==
    /\ phase = "start"
    /\ \E r \in {AppendTokens(hist.t, <<>>, text, opts)} :
          /\ output' = r.ids
          /\ hist' = [hist EXCEPT !.t.cache = r.cache, !.emitted = r.emitted]
    /\ phase' = "encoded"
    /\ UNCHANGED <<text, input, position, tokens, opts, cache, decoded,
                   gor, pool, sc, rd, bpe, codec, stream>>

\* output := t.AppendTokens(dst, text, opts) with one ID in dst
AppendTokensCall ==
    /\ phase = "start"
    /\ \E dst \in {<<7>>} : \E r \in {AppendTokens(hist.t, dst, text, opts)} :
          /\ output' = r.ids
          /\ hist' = [hist EXCEPT !.t.cache = r.cache, !.dst = dst, !.emitted = r.emitted]
    /\ phase' = "encoded"
    /\ UNCHANGED <<text, input, position, tokens, opts, cache, decoded,
                   gor, pool, sc, rd, bpe, codec, stream>>

NextEncNew == EncodeOfCall \/ AppendTokensCall

SpecEncNew == InitEncNew /\ [][NextEncNew]_vars

\* the strict special tokens among the strings of the model's texts
StrictSpecial(part) == part \in {EotID, beginOfTextToken}

\* the part encoded as ordinary text, on a tokenizer with an empty cache
OrdinaryText(t, part) ==
    EncodePretokensOf([ProcessorOf(t) EXCEPT !.Cache = NewSimple], pretokenize(part), 1).ids

\* the part has its own, non-zero ID
OwnID(t, part) == part \in DOMAIN t.tokenLookup /\ t.tokenLookup[part] # 0

\* the per-part IDs are what the output is made of
EmittedIsOutput ==
    \E o \in {IF opts.nil THEN defaultEncodeOptions ELSE opts} :
       output = hist.dst
                \o (IF o.BOS /\ beginOfTextToken \in DOMAIN hist.t.tokenLookup
                    THEN <<hist.t.tokenLookup[beginOfTextToken]>> ELSE <<>>)
                \o Concat(hist.emitted)
                \o (IF o.EOS /\ endOfTextToken \in DOMAIN hist.t.tokenLookup
                    THEN <<hist.t.tokenLookup[endOfTextToken]>> ELSE <<>>)

C37_WitnessZeroID ==
    /\ phase = "encoded"
    /\ text = EotID
    /\ EotID \in DOMAIN hist.t.tokenLookup /\ hist.t.tokenLookup[EotID] = 0
    /\ output = <<>>

----------------------------------------------------------------------------
(* Queue entries of the merge loop (SpecBPE).                               *)

\* the entry of node x is the one of its pair as the list is now: the
\* merge string is the string of its token followed by the string of the
\* token of its Next, the priority is the rule priority of the pair plus
\* the position bias OrigPos/len(pretoken) (times len(pretoken) here)
EntryCurrent(p, st, x, pretokenLen) ==
    \E n \in {st.nodes[x]} : \E next \in {st.nodes[st.nodes[x].Next]} :
       /\ n.MergeToString = p.Tokens[n.TokenID] \o p.Tokens[next.TokenID]
       /\ (p.Tokens[n.TokenID] \o <<32>> \o p.Tokens[next.TokenID]) \in DOMAIN p.MergeRules
       /\ n.MergePrio =
             p.MergeRules[p.Tokens[n.TokenID] \o <<32>> \o p.Tokens[next.TokenID]] * pretokenLen
             + n.OrigPos

\* C38: in the merge loop every queue entry that passes the validity check
\* holds the merge string and the priority (rule priority plus position
\* bias) of the node's token and the token of its present Next, so the
\* entry popped and merged is such an entry; an entry computed for a pair
\* that has changed since does not pass the check.
C38_ValidEntriesCurrent ==
    /\ [](bpe.pc = "loop" =>
             \A x \in bpe.st.pq :
                isValidMerge(bpe.st, x) => EntryCurrent(bpe.p, bpe.st, x, Len(bpe.pretoken)))
    /\ [][(bpe.pc = "loop" /\ bpe'.pc = "loop" /\ bpe'.merged # 0) =>
             /\ bpe'.merged = PopMin(bpe.st)
             /\ EntryCurrent(bpe.p, bpe.st, bpe'.merged, Len(bpe.pretoken))]_vars

\* in the loop, after merges: the queue holds an entry that no longer
\* passes the check, a valid entry of a node whose Next is a node made by a
\* merge, and a valid entry of a node at a position other than 0
C38_Witness ==
    /\ bpe.pc = "loop"
    /\ \E x \in bpe.st.pq : ~isValidMerge(bpe.st, x)
    /\ \E y \in bpe.st.pq :
          /\ isValidMerge(bpe.st, y)
          /\ bpe.st.nodes[y].Next > Len(pretokenToIDs(bpe.p, bpe.pretoken))
    /\ \E z \in bpe.st.pq : isValidMerge(bpe.st, z) /\ bpe.st.nodes[z].OrigPos > 0

----------------------------------------------------------------------------
(* Termination of the merge loop (SpecBPEFair).                             *)

\* following Next from node reaches the end of the list without coming to
\* a node twice
RECURSIVE EndsWithoutCycle(_, _, _)
EndsWithoutCycle(st, node, seen) ==
    IF node = 0 THEN TRUE
    ELSE IF node \in seen THEN FALSE
    ELSE EndsWithoutCycle(st, st.nodes[node].Next, seen \cup {node})

\* k, the number of initial tokens of the pre-token of the call
InitialTokens == Len(pretokenToIDs(bpe.p, bpe.pretoken))

\* C39: a call that enters the merge loop has k >= 2 initial tokens; its
\* loop performs at most k - 1 merges, dropped ones counted, its queue
\* becomes empty, which is when the call returns, and the list from the
\* first node is then non-empty and ends without a cycle.
C39_MergeLoopTerminates ==
    /\ [](bpe.pc = "loop" =>
             /\ InitialTokens >= 2
             /\ bpe.merges + bpe.dropped <= InitialTokens - 1
             /\ (bpe.st.pq = {} =>
                    /\ bpe.st.first # 0
                    /\ EndsWithoutCycle(bpe.st, bpe.st.first, {})))
    /\ [][(bpe.pc = "loop" /\ bpe'.pc = "idle") => bpe.st.pq = {}]_vars
    /\ (bpe.pc = "loop") ~> (bpe.pc = "idle" /\ Len(bpe.result) >= 1)

\* the loop of a pre-token of six tokens is over after four merges
C39_Witness ==
    /\ bpe.pc = "loop" /\ bpe.st.pq = {}
    /\ InitialTokens = 6
    /\ bpe.merges = 4
    /\ Len(CollectIDs(bpe.st, bpe.st.first)) = 2

----------------------------------------------------------------------------
(* After Scan has returned false (SpecScan).                                *)

\* C40: once a Scan call has returned false, no later Scan call returns
\* true, so no further token is emitted (no second end-of-text token
\* either), and Err() keeps its value.
C40_FalseIsFinal ==
    [][hist.ended =>
          /\ hist'.emitted = hist.emitted
          /\ Err(sc') = Err(sc)]_vars

====
